---- MODULE Spec2Model ----
(***************************************************************************)
(* A model of the weather-data archive: WeatherData records with optional  *)
(* fields, the WeatherArchive ordered map (addData, retrieve,              *)
(* retrieveRange), the date codec of jsonparse, and ParseWeatherDriver's   *)
(* calcVariableMean, runMeanOption, sampleHistoricalData and               *)
(* readInputFile.                                                          *)
(*                                                                         *)
(* A std::optional<T> is modelled as a set with at most one element: {} is *)
(* the unset optional, {v} the optional holding v.  Equality of optionals  *)
(* is then equality of these sets.                                         *)
(***************************************************************************)
EXTENDS Integers, Sequences, FiniteSets, TLC

\* Largest timestamp (WeatherData::data_time, seconds) the model draws.
MaxTime == 2

\* The timestamps callers pass to the archive.
Times == 0..MaxTime

\* ------------------------------------------------------------------------
\* std::optional

nullopt == {}

has_value(o) == o # {}

value(o) == CHOOSE v \in o : TRUE

\* ------------------------------------------------------------------------
\* WeatherData

\* A WeatherData object from its five optional members.
WeatherData(t, tmax, tmin, tmean, ppt) ==
    [time |-> t, maxTemp |-> tmax, minTemp |-> tmin, meanTemp |-> tmean,
     gas_ppt |-> ppt]

\* The measurement value sets (maxTemp, minTemp, meanTemp, gas_ppt) that
\* input records carry: every field occurs unset and with two different
\* values (0 among them), and every record lacks a field another one has.
Measurements ==
    { <<{},  {},  {},  {}>>,
      <<{1}, {2}, {},  {1}>>,
      <<{2}, {},  {1}, {2}>>,
      <<{},  {0}, {3}, {}>> }

\* The records handed to addData: any measurement set, with or without a
\* timestamp.
InputData ==
    { WeatherData(t, m[1], m[2], m[3], m[4]) :
        t \in {{x} : x \in Times} \cup {nullopt}, m \in Measurements }

\* ------------------------------------------------------------------------
\* std::map<data_time, WeatherData>: a sequence of entries in ascending key
\* order (the order of iteration of the container).

\* find: the position of the entry with key k, Len(m) + 1 being end().
MapEnd(m) == Len(m) + 1

MapFind(m, k) ==
    IF \E i \in 1..Len(m) : m[i].key = k
    THEN CHOOSE i \in 1..Len(m) : m[i].key = k
    ELSE MapEnd(m)

\* The position at which a new key k is linked into the ordered container:
\* before the first entry whose key is greater.
MapLowerBound(m, k) ==
    IF \E i \in 1..Len(m) : m[i].key > k
    THEN CHOOSE i \in 1..Len(m) :
            m[i].key > k /\ \A j \in 1..(i - 1) : m[j].key < k
    ELSE MapEnd(m)

\* Faulty variant: a container that keeps insertion order (a new key goes last).
MapAssignAppend(m, k, d) ==
    LET it == MapFind(m, k)
    IN  IF it # MapEnd(m)
        THEN [m EXCEPT ![it].data = d]
        ELSE Append(m, [key |-> k, data |-> d])

\* Faulty variant: std::map::insert semantics, an existing key keeps its record.
MapAssignKeepOld(m, k, d) ==
    LET it == MapFind(m, k)
        at == MapLowerBound(m, k)
    IN  IF it # MapEnd(m)
        THEN m
        ELSE SubSeq(m, 1, at - 1) \o <<[key |-> k, data |-> d]>>
                \o SubSeq(m, at, Len(m))

\* Faulty variant: an existing record is merged with the new one, a field the new
\* record lacks keeping its old value.
MapAssignMerge(m, k, d) ==
    LET it == MapFind(m, k)
        at == MapLowerBound(m, k)
        Merged(old) ==
            [f \in DOMAIN d |-> IF has_value(d[f]) THEN d[f] ELSE old[f]]
    IN  IF it # MapEnd(m)
        THEN [m EXCEPT ![it].data = Merged(m[it].data)]
        ELSE SubSeq(m, 1, at - 1) \o <<[key |-> k, data |-> d]>>
                \o SubSeq(m, at, Len(m))

\* Faulty variant: a new key gets the default-constructed record operator[] makes,
\* the assignment reaching only an entry that existed.
MapAssignDefault(m, k, d) ==
    LET it == MapFind(m, k)
        at == MapLowerBound(m, k)
        dflt == WeatherData(nullopt, nullopt, nullopt, nullopt, nullopt)
    IN  IF it # MapEnd(m)
        THEN [m EXCEPT ![it].data = d]
        ELSE SubSeq(m, 1, at - 1) \o <<[key |-> k, data |-> dflt]>>
                \o SubSeq(m, at, Len(m))

\* Faulty variant: a new key is linked in and the entries after it are lost.
MapAssignDropTail(m, k, d) ==
    LET it == MapFind(m, k)
        at == MapLowerBound(m, k)
    IN  IF it # MapEnd(m)
        THEN [m EXCEPT ![it].data = d]
        ELSE SubSeq(m, 1, at - 1) \o <<[key |-> k, data |-> d]>>

\* mWeatherMap[k] = d: operator[] finds the entry or creates it in key
\* order, and the assignment overwrites the whole record.
MapAssign(m, k, d) ==
    LET it == MapFind(m, k)
        at == MapLowerBound(m, k)
    IN  IF it # MapEnd(m)
        THEN [m EXCEPT ![it].data = d]
        ELSE SubSeq(m, 1, at - 1) \o <<[key |-> k, data |-> d]>>
                \o SubSeq(m, at, Len(m))

\* ------------------------------------------------------------------------
\* WeatherArchive

\* Faulty variant: a record without a timestamp is filed under time.value_or(0).
addDataValueOr(m, data) ==
    IF has_value(data.time)
    THEN MapAssign(m, value(data.time), data)
    ELSE MapAssign(m, 0, data)

\* WeatherArchive::addData: the map after the call.
addData(m, data) ==
    IF has_value(data.time)
    THEN MapAssign(m, value(data.time), data)
    ELSE m

\* WeatherArchive::retrieve: an optional holding a copy of the record.
retrieve(m, time) ==
    LET it == MapFind(m, time)
    IN  IF it # MapEnd(m) THEN {m[it].data} ELSE nullopt

\* The loop of retrieveRange: from position it, push each record and stop
\* after the one at end_it, or at end() of the container.
RECURSIVE RangeLoop(_, _, _, _)
RangeLoop(m, it, end_it, retData) ==
    IF it = MapEnd(m)
    THEN retData
    ELSE LET pushed == Append(retData, m[it].data)
         IN  IF it = end_it
             THEN pushed
             ELSE RangeLoop(m, it + 1, end_it, pushed)

\* Faulty variant: the start of the range is the first key at or after begin_sec
\* (lower_bound) instead of the key begin_sec itself.
retrieveRangeLowerBound(m, begin_sec, end_sec) ==
    IF begin_sec <= end_sec
    THEN LET begin_it == IF MapFind(m, begin_sec) # MapEnd(m)
                         THEN MapFind(m, begin_sec)
                         ELSE MapLowerBound(m, begin_sec)
         IN  IF begin_it # MapEnd(m)
             THEN RangeLoop(m, begin_it, MapFind(m, end_sec), <<>>)
             ELSE <<>>
    ELSE <<>>

\* Faulty variant: the range is half open, the record at end_sec is left out.
retrieveRangeHalfOpen(m, begin_sec, end_sec) ==
    IF begin_sec <= end_sec
    THEN LET begin_it == MapFind(m, begin_sec)
         IN  IF begin_it # MapEnd(m)
             THEN LET r == RangeLoop(m, begin_it, MapFind(m, end_sec), <<>>)
                  IN  IF MapFind(m, end_sec) # MapEnd(m) /\ Len(r) > 1
                      THEN SubSeq(r, 1, Len(r) - 1)
                      ELSE r
             ELSE <<>>
    ELSE <<>>

\* Faulty variant: the loop never breaks at end_it and runs to end().
retrieveRangeNoBreak(m, begin_sec, end_sec) ==
    IF begin_sec <= end_sec
    THEN LET begin_it == MapFind(m, begin_sec)
         IN  IF begin_it # MapEnd(m)
             THEN RangeLoop(m, begin_it, MapEnd(m), <<>>)
             ELSE <<>>
    ELSE <<>>

\* WeatherArchive::retrieveRange.
retrieveRange(m, begin_sec, end_sec) ==
    IF begin_sec <= end_sec
    THEN LET begin_it == MapFind(m, begin_sec)
         IN  IF begin_it # MapEnd(m)
             THEN RangeLoop(m, begin_it, MapFind(m, end_sec), <<>>)
             ELSE <<>>
    ELSE <<>>

\* ------------------------------------------------------------------------
\* ParseWeatherDriver::calcVariableMean

TMAX_KEY == "tmax"

TMIN_KEY == "tmin"

TMEAN_KEY == "tmean"

PPT_KEY == "ppt"

\* The variable names the --mean option accepts.
VariableStrings == <<TMAX_KEY, TMIN_KEY, TMEAN_KEY, PPT_KEY>>

RECURSIVE Gcd(_, _)
Gcd(a, b) == IF b = 0 THEN a ELSE Gcd(b, a % b)

\* A double that is a quotient of two integers, as the fraction in lowest
\* terms <<numerator, denominator>>; <<0, 0>> is NaN.
NaN == <<0, 0>>

isnan(x) == x[2] = 0

Quotient(sum, count) ==
    LET g == Gcd(sum, count) IN <<sum \div g, count \div g>>

\* Faulty variant: a record without the field is counted, adding nothing to sum.
RECURSIVE MeanLoopCountsMissing(_, _, _, _, _)
MeanLoopCountsMissing(rangeData, i, field, count, sum) ==
    IF i > Len(rangeData)
    THEN <<count, sum>>
    ELSE IF has_value(rangeData[i][field])
         THEN MeanLoopCountsMissing(rangeData, i + 1, field, count + 1,
                                    sum + value(rangeData[i][field]))
         ELSE MeanLoopCountsMissing(rangeData, i + 1, field, count + 1, sum)

\* One of the four loops of calcVariableMean over rangeData, from index i:
\* <<count, sum>> after it, a record counting only if its field is set.
RECURSIVE MeanLoop(_, _, _, _, _)
MeanLoop(rangeData, i, field, count, sum) ==
    IF i > Len(rangeData)
    THEN <<count, sum>>
    ELSE IF has_value(rangeData[i][field])
         THEN MeanLoop(rangeData, i + 1, field, count + 1,
                       sum + value(rangeData[i][field]))
         ELSE MeanLoop(rangeData, i + 1, field, count, sum)

\* Faulty variant: a mean over no value is 0 instead of NaN.
calcVariableMeanZero(m, startUnix, finishUnix, variable_name) ==
    LET rangeData == retrieveRange(m, startUnix, finishUnix)
        f  == CASE variable_name = TMAX_KEY -> "maxTemp"
                [] variable_name = TMIN_KEY -> "minTemp"
                [] variable_name = TMEAN_KEY -> "meanTemp"
                [] OTHER -> "gas_ppt"
        cs == MeanLoop(rangeData, 1, f, 0, 0)
    IN  IF cs[1] > 0 THEN Quotient(cs[2], cs[1]) ELSE <<0, 1>>

\* calcVariableMean on the archive m, startUnix and finishUnix being the
\* values dateToUnix gives for the two dates of range_string.
calcVariableMean(m, startUnix, finishUnix, variable_name) ==
    LET rangeData == retrieveRange(m, startUnix, finishUnix)
        cs == IF variable_name = TMAX_KEY
              THEN MeanLoop(rangeData, 1, "maxTemp", 0, 0)
              ELSE IF variable_name = TMIN_KEY
              THEN MeanLoop(rangeData, 1, "minTemp", 0, 0)
              ELSE IF variable_name = TMEAN_KEY
              THEN MeanLoop(rangeData, 1, "meanTemp", 0, 0)
              ELSE IF variable_name = PPT_KEY
              THEN MeanLoop(rangeData, 1, "gas_ppt", 0, 0)
              ELSE <<0, 0>>
    IN  IF cs[1] > 0 THEN Quotient(cs[2], cs[1]) ELSE NaN

\* ------------------------------------------------------------------------
\* State

VARIABLES
    mWeatherMap,  \* WeatherArchive::mWeatherMap
    lastAdded,    \* history: per timestamp, the last record addData was given
    outOfOrder,   \* history: some addData created a key below a stored key
    op            \* the last call made: its name, arguments and return value

vars == <<mWeatherMap, lastAdded, outOfOrder, op>>

Init ==
    /\ mWeatherMap = <<>>
    /\ lastAdded = [t \in Times |-> nullopt]
    /\ outOfOrder = FALSE
    /\ op = [name |-> "none"]

\* archive.addData(data).  op.old is what was stored under the timestamp of
\* data when the call was made.
AddData(data) ==
    /\ mWeatherMap' = addData(mWeatherMap, data)
    /\ lastAdded' = IF has_value(data.time)
                    THEN [lastAdded EXCEPT ![value(data.time)] = {data}]
                    ELSE lastAdded
    /\ outOfOrder' =
          (\/ outOfOrder
           \/ /\ has_value(data.time)
              /\ lastAdded[value(data.time)] = nullopt
              /\ \E t \in Times :
                    t > value(data.time) /\ lastAdded[t] # nullopt)
    /\ op' = [name |-> "addData", data |-> data,
              old |-> IF has_value(data.time)
                      THEN lastAdded[value(data.time)]
                      ELSE nullopt]

\* archive.retrieve(time)
Retrieve(time) ==
    /\ op' = [name |-> "retrieve", time |-> time,
              ret |-> retrieve(mWeatherMap, time)]
    /\ UNCHANGED <<mWeatherMap, lastAdded, outOfOrder>>

\* archive.retrieveRange(begin_sec, end_sec)
RetrieveRange(begin_sec, end_sec) ==
    /\ op' = [name |-> "retrieveRange", begin_sec |-> begin_sec,
              end_sec |-> end_sec,
              ret |-> retrieveRange(mWeatherMap, begin_sec, end_sec)]
    /\ UNCHANGED <<mWeatherMap, lastAdded, outOfOrder>>

\* calcVariableMean(range_string, variable_name), as runMeanOption calls it:
\* range_string has passed checkDateRange (start at or before finish) and
\* variable_name is one of VariableStrings.
CalcVariableMean(startUnix, finishUnix, variable_name) ==
    /\ startUnix <= finishUnix
    /\ op' = [name |-> "calcVariableMean", begin_sec |-> startUnix,
              end_sec |-> finishUnix, variable_name |-> variable_name,
              ret |-> calcVariableMean(mWeatherMap, startUnix, finishUnix,
                                       variable_name)]
    /\ UNCHANGED <<mWeatherMap, lastAdded, outOfOrder>>

Next ==
    \/ \E data \in InputData : AddData(data)
    \/ \E time \in Times : Retrieve(time)
    \/ \E b \in Times, e \in Times : RetrieveRange(b, e)
    \/ \E b \in Times, e \in Times, i \in 1..Len(VariableStrings) :
          CalcVariableMean(b, e, VariableStrings[i])

Spec == Init /\ [][Next]_vars

\* ------------------------------------------------------------------------
\* Properties

\* The positions of the map whose key is k.
EntriesAt(m, k) == {i \in 1..Len(m) : m[i].key = k}

\* Some record is stored under key k.
Stored(m, k) == EntriesAt(m, k) # {}

\* C1: whatever the calls made, the archive holds exactly one record under
\* each timestamp addData was given, and retrieving it gives the record of
\* the last such addData in all five fields: the replacement is total, a
\* field of the replaced record that the new record lacks is unset.
C1_ReplaceOnDuplicate ==
    \A t \in Times :
        has_value(lastAdded[t]) =>
            /\ Cardinality(EntriesAt(mWeatherMap, t)) = 1
            /\ retrieve(mWeatherMap, t) = lastAdded[t]
            /\ \A f \in {"time", "maxTemp", "minTemp", "meanTemp", "gas_ppt"} :
                   value(retrieve(mWeatherMap, t))[f] = value(lastAdded[t])[f]

\* C1 witness: addData has just replaced a record that had maxTemp by one
\* that has none but has a field the old one lacked, and the stored record
\* has no maxTemp.
C1_Witness ==
    /\ op.name = "addData"
    /\ has_value(op.data.time)
    /\ has_value(op.old)
    /\ has_value(value(op.old).maxTemp)
    /\ ~has_value(op.data.maxTemp)
    /\ has_value(op.data.meanTemp)
    /\ ~has_value(value(op.old).meanTemp)
    /\ ~has_value(value(retrieve(mWeatherMap, value(op.data.time))).maxTemp)

\* C2: a step that is addData of a record without timestamp leaves the
\* archive as it was: the same keys, the same number of records, the same
\* record under each key, and the same answer of retrieve for every
\* timestamp.
C2_NoTimestampNoOp ==
    [][(op'.name = "addData" /\ ~has_value(op'.data.time)) =>
          /\ mWeatherMap' = mWeatherMap
          /\ Len(mWeatherMap') = Len(mWeatherMap)
          /\ \A t \in Times :
                retrieve(mWeatherMap', t) = retrieve(mWeatherMap, t)]_vars

\* C2 witness: addData was given a record with measurements and without
\* timestamp while the archive held records, and some timestamp is still
\* not retrievable.
C2_Witness ==
    /\ op.name = "addData"
    /\ ~has_value(op.data.time)
    /\ has_value(op.data.maxTemp)
    /\ Len(mWeatherMap) >= 1
    /\ \E t \in Times : ~has_value(retrieve(mWeatherMap, t))

\* C3: in every state of the archive reached by addData, retrieve,
\* retrieveRange, the mean and the steps of resampling, every key of the
\* map is associated with a record whose timestamp is set and equal to
\* the key.
C3_KeyIsTimestamp ==
    \A i \in 1..Len(mWeatherMap) :
        /\ has_value(mWeatherMap[i].data.time)
        /\ value(mWeatherMap[i].data.time) = mWeatherMap[i].key

\* C3 witness: the archive holds several records, not inserted in key
\* order, and a sample has returned the record stored under the first
\* second of 1970 stamped with another day, the stored record keeping
\* its time.
C3_Witness ==
    /\ Len(mWeatherMap) >= 2
    /\ outOfOrder
    /\ op.name = "sampleHistoricalData"
    /\ op.returned
    /\ Len(op.retData) >= 1
    /\ mWeatherMap[1].key = 0
    /\ mWeatherMap[1].data.time = {0}
    /\ op.retData[1].time # {0}

\* C4: retrieve(t) returns a record exactly when an earlier addData carried
\* timestamp t, the record of the most recent such call, and returns the
\* unset optional for every other t.
C4_RetrieveLastAdded ==
    op.name = "retrieve" =>
        /\ has_value(op.ret) <=> has_value(lastAdded[op.time])
        /\ op.ret = lastAdded[op.time]

\* C4 witness: retrieve has returned a record from an archive of several
\* records in which another timestamp is missing.
C4_Witness ==
    /\ op.name = "retrieve"
    /\ has_value(op.ret)
    /\ value(op.ret) \in InputData
    /\ \E t \in Times : ~Stored(mWeatherMap, t)
    /\ Len(mWeatherMap) >= 2

\* C5: retrieveRange(begin, end) is empty when begin > end or no record is
\* stored at key begin, and non-empty when begin <= end and begin is a
\* stored key.
C5_RangeNeedsStart ==
    op.name = "retrieveRange" =>
        /\ (op.begin_sec > op.end_sec \/ ~Stored(mWeatherMap, op.begin_sec))
              => op.ret = <<>>
        /\ (op.begin_sec <= op.end_sec /\ Stored(mWeatherMap, op.begin_sec))
              => op.ret # <<>>

\* C5 witness: retrieveRange returned nothing for a range whose start is not
\* stored although records are stored strictly inside it and at its end.
C5_Witness ==
    /\ op.name = "retrieveRange"
    /\ ~Stored(mWeatherMap, op.begin_sec)
    /\ Stored(mWeatherMap, op.end_sec)
    /\ \E t \in Times :
          op.begin_sec < t /\ t < op.end_sec /\ Stored(mWeatherMap, t)
    /\ op.ret = <<>>

\* The records of the entries of m, in container order, whose key is at
\* least lo and at most hi.
RecordsBetween(m, lo, hi) ==
    LET InRange(en) == lo <= en.key /\ en.key <= hi
        sel == SelectSeq(m, InRange)
    IN  [i \in 1..Len(sel) |-> sel[i].data]

\* The largest key of a non-empty map.
LastKey(m) == CHOOSE k \in {m[i].key : i \in 1..Len(m)} :
                 \A i \in 1..Len(m) : m[i].key <= k

\* C6: when begin <= end and begin is a stored key, retrieveRange returns
\* exactly the stored records with key in [begin, end]: none with a
\* timestamp above end, none of that interval missing, whether or not end
\* is a stored key.
C6_RangeWithinBounds ==
    (/\ op.name = "retrieveRange"
     /\ op.begin_sec <= op.end_sec
     /\ Stored(mWeatherMap, op.begin_sec)) =>
        /\ \A i \in 1..Len(op.ret) : value(op.ret[i].time) <= op.end_sec
        /\ \A t \in op.begin_sec..op.end_sec :
              Stored(mWeatherMap, t) =>
                  \E i \in 1..Len(op.ret) : op.ret[i].time = {t}
        /\ op.ret = RecordsBetween(mWeatherMap, op.begin_sec, op.end_sec)

\* C7: with begin <= end and begin a stored key, retrieveRange collects the
\* entries from begin through end when end is a stored key, and the entries
\* from begin through the last entry of the archive when it is not.
C7_RangeToEndOrLast ==
    (/\ op.name = "retrieveRange"
     /\ op.begin_sec <= op.end_sec
     /\ Stored(mWeatherMap, op.begin_sec)) =>
        IF Stored(mWeatherMap, op.end_sec)
        THEN op.ret = RecordsBetween(mWeatherMap, op.begin_sec, op.end_sec)
        ELSE op.ret = RecordsBetween(mWeatherMap, op.begin_sec,
                                     LastKey(mWeatherMap))

\* C7 witness: the end of the range is not a stored key, a record is stored
\* above it, and retrieveRange returned the records up to the last one of
\* the archive, that one included.
C7_Witness ==
    /\ op.name = "retrieveRange"
    /\ op.begin_sec < op.end_sec
    /\ Stored(mWeatherMap, op.begin_sec)
    /\ ~Stored(mWeatherMap, op.end_sec)
    /\ LastKey(mWeatherMap) > op.end_sec
    /\ Len(op.ret) >= 2
    /\ op.ret[Len(op.ret)].time = {LastKey(mWeatherMap)}

\* The elements of a sequence of records whose timestamp is at most mid.
UpTo(recs, mid) ==
    LET AtMost(r) == value(r.time) <= mid IN SelectSeq(recs, AtMost)

\* C8: for begin <= mid <= end, all stored keys, the elements of
\* retrieveRange(begin, end) with timestamp at most mid are exactly the
\* sequence retrieveRange(begin, mid).
C8_RangePrefix ==
    (/\ op.name = "retrieveRange"
     /\ Stored(mWeatherMap, op.begin_sec)
     /\ Stored(mWeatherMap, op.end_sec)) =>
        \A mid \in op.begin_sec..op.end_sec :
            Stored(mWeatherMap, mid) =>
                UpTo(op.ret, mid) =
                    retrieveRange(mWeatherMap, op.begin_sec, mid)

\* C8 witness: retrieveRange ran with its two ends stored, a stored key
\* strictly between them and a stored key above its end.
C8_Witness ==
    /\ op.name = "retrieveRange"
    /\ Stored(mWeatherMap, op.begin_sec)
    /\ Stored(mWeatherMap, op.end_sec)
    /\ \E mid \in Times :
          op.begin_sec < mid /\ mid < op.end_sec /\ Stored(mWeatherMap, mid)
    /\ Len(op.ret) >= 3

\* The map that holds, in ascending order of timestamp, the last record
\* added under each of the timestamps from t on: a function of what was
\* inserted, whatever the order of the insertions.
RECURSIVE SortedEntries(_, _)
SortedEntries(added, t) ==
    IF t > MaxTime
    THEN <<>>
    ELSE (IF has_value(added[t])
          THEN <<[key |-> t, data |-> value(added[t])]>>
          ELSE <<>>) \o SortedEntries(added, t + 1)

\* C9: the sequence retrieveRange returns is strictly ascending by
\* timestamp, no timestamp repeated, and is the one the same call gives on
\* the records inserted taken in ascending order: it does not depend on the
\* order of the addData calls.
C9_AscendingAnyOrder ==
    op.name = "retrieveRange" =>
        /\ \A i \in 1..Len(op.ret) : \A j \in 1..Len(op.ret) :
              i < j => value(op.ret[i].time) < value(op.ret[j].time)
        /\ mWeatherMap = SortedEntries(lastAdded, 0)
        /\ op.ret = retrieveRange(SortedEntries(lastAdded, 0),
                                  op.begin_sec, op.end_sec)

\* C9 witness: records were inserted out of timestamp order and
\* retrieveRange returned several of them.
C9_Witness ==
    /\ op.name = "retrieveRange"
    /\ outOfOrder
    /\ Len(op.ret) >= 3

\* The WeatherData member a variable name stands for.
FieldOf(variable_name) ==
    CASE variable_name = TMAX_KEY -> "maxTemp"
      [] variable_name = TMIN_KEY -> "minTemp"
      [] variable_name = TMEAN_KEY -> "meanTemp"
      [] variable_name = PPT_KEY -> "gas_ppt"

\* The sum of field f over the records of recs at the positions in S.
RECURSIVE SumAt(_, _, _)
SumAt(recs, f, S) ==
    IF S = {}
    THEN 0
    ELSE LET i == CHOOSE x \in S : TRUE
         IN  value(recs[i][f]) + SumAt(recs, f, S \ {i})

\* C10: for a recognized variable, calcVariableMean returns the sum of the
\* variable over the records of the fetched range that have it, divided by
\* the number of those records; the records that lack it add nothing to
\* either.
C10_MeanOverPresent ==
    op.name = "calcVariableMean" =>
        LET fetched == retrieveRange(mWeatherMap, op.begin_sec, op.end_sec)
            f == FieldOf(op.variable_name)
            present == {i \in 1..Len(fetched) : has_value(fetched[i][f])}
        IN  present # {} =>
                /\ ~isnan(op.ret)
                /\ op.ret[1] * Cardinality(present)
                      = SumAt(fetched, f, present) * op.ret[2]

\* C10 witness: the mean of tmax was taken over three records, the middle
\* one without tmax and the outer two with different values of it.
C10_Witness ==
    /\ op.name = "calcVariableMean"
    /\ op.variable_name = TMAX_KEY
    /\ LET fetched == retrieveRange(mWeatherMap, op.begin_sec, op.end_sec)
       IN  /\ Len(fetched) = 3
           /\ has_value(fetched[1].maxTemp)
           /\ ~has_value(fetched[2].maxTemp)
           /\ has_value(fetched[3].maxTemp)
           /\ fetched[1].maxTemp # fetched[3].maxTemp
           /\ op.ret[1] * 2
                 = (value(fetched[1].maxTemp) + value(fetched[3].maxTemp))
                     * op.ret[2]

\* ------------------------------------------------------------------------
\* std::string as the sequence of its characters, and the date codec
\* (jsonparse::dateToUnix, jsonparse::unixToDate over date::sys_days)

Digits == <<"0", "1", "2", "3", "4", "5", "6", "7", "8", "9">>

IsDigit(c) == \E i \in 1..Len(Digits) : Digits[i] = c

DigitValue(c) == (CHOOSE i \in 1..Len(Digits) : Digits[i] = c) - 1

\* std::stoi on a string that starts with a digit: the number its leading
\* digits spell, conversion stopping at the first other character.
RECURSIVE StoiFrom(_, _, _)
StoiFrom(str, i, acc) ==
    IF i > Len(str) \/ ~IsDigit(str[i])
    THEN acc
    ELSE StoiFrom(str, i + 1, acc * 10 + DigitValue(str[i]))

stoi(str) == StoiFrom(str, 1, 0)

\* s.substr(pos, n) with pos counted from 0; s.substr(pos) runs to the end.
substr(str, pos, n) ==
    SubSeq(str, pos + 1, IF pos + n > Len(str) THEN Len(str) ELSE pos + n)

substrFrom(str, pos) == SubSeq(str, pos + 1, Len(str))

\* dateRegex, ([12]\d{3}-(0[1-9]|1[0-2])-(0[1-9]|[12]\d|3[01])), matching
\* the ten characters of str that start at position p (from 1).
DateRegexAt(str, p) ==
    /\ p >= 1
    /\ p + 9 <= Len(str)
    /\ str[p] \in {"1", "2"}
    /\ IsDigit(str[p + 1]) /\ IsDigit(str[p + 2]) /\ IsDigit(str[p + 3])
    /\ str[p + 4] = "-"
    /\ \/ str[p + 5] = "0" /\ IsDigit(str[p + 6]) /\ str[p + 6] # "0"
       \/ str[p + 5] = "1" /\ str[p + 6] \in {"0", "1", "2"}
    /\ str[p + 7] = "-"
    /\ \/ str[p + 8] = "0" /\ IsDigit(str[p + 9]) /\ str[p + 9] # "0"
       \/ str[p + 8] \in {"1", "2"} /\ IsDigit(str[p + 9])
       \/ str[p + 8] = "3" /\ str[p + 9] \in {"0", "1"}

\* The capture groups of a match at p: group 1 is the whole date, group 2
\* the month, group 3 the day.
DateGroups(str, p) ==
    <<SubSeq(str, p, p + 9), SubSeq(str, p + 5, p + 6),
      SubSeq(str, p + 8, p + 9)>>

\* std::regex_search(str, dateRegex): the groups of the leftmost match, as
\* an optional.
DateRegexSearch(str) ==
    IF \E p \in 1..Len(str) : DateRegexAt(str, p)
    THEN {DateGroups(str, CHOOSE p \in 1..Len(str) :
                        /\ DateRegexAt(str, p)
                        /\ \A q \in 1..(p - 1) : ~DateRegexAt(str, q))}
    ELSE nullopt

\* std::regex_match(str, dateRegex): the whole of str must match.
DateRegexMatch(str) ==
    IF Len(str) = 10 /\ DateRegexAt(str, 1)
    THEN {DateGroups(str, 1)}
    ELSE nullopt

SecondsPerDay == 86400

\* date::sys_days{year/month/day}: days since 1970-01-01.  The conversion
\* does not ask whether the day exists in the month: a day past the end of
\* the month counts on into the next one.
days_from_civil(year, month, day) ==
    LET y   == IF month <= 2 THEN year - 1 ELSE year
        era == y \div 400
        yoe == y - era * 400
        mp  == IF month > 2 THEN month - 3 ELSE month + 9
        doy == (153 * mp + 2) \div 5 + day - 1
        doe == yoe * 365 + yoe \div 4 - yoe \div 100 + doy
    IN  era * 146097 + doe - 719468

\* date::year_month_day{sys_days}: <<year, month, day>> of a day count.
civil_from_days(z) ==
    LET zz  == z + 719468
        era == zz \div 146097
        doe == zz - era * 146097
        yoe == (doe - doe \div 1460 + doe \div 36524 - doe \div 146096)
                  \div 365
        doy == doe - (365 * yoe + yoe \div 4 - yoe \div 100)
        mp  == (5 * doy + 2) \div 153
        d   == doy - (153 * mp + 2) \div 5 + 1
        m   == IF mp < 10 THEN mp + 3 ELSE mp - 9
        y   == yoe + era * 400
    IN  <<IF m <= 2 THEN y + 1 ELSE y, m, d>>

\* The epoch seconds of the groups of a dateRegex match.
UnixOfGroups(g) ==
    days_from_civil(stoi(g[1]), stoi(g[2]), stoi(g[3])) * SecondsPerDay

\* jsonparse::dateToUnix
dateToUnix(date_string) ==
    LET searchResult == DateRegexSearch(date_string)
    IN  IF has_value(searchResult)
        THEN {UnixOfGroups(value(searchResult))}
        ELSE nullopt

\* n written with at least w digits, zero filled.
RECURSIVE PadNumber(_, _)
PadNumber(n, w) ==
    IF w <= 1 /\ n < 10
    THEN <<Digits[n + 1]>>
    ELSE Append(PadNumber(n \div 10, w - 1), Digits[(n % 10) + 1])

\* jsonparse::unixToDate: the day of unix_time_sec as yyyy-mm-dd.
unixToDate(unix_time_sec) ==
    LET ymd == civil_from_days(unix_time_sec \div SecondsPerDay)
    IN  PadNumber(ymd[1], 4) \o <<"-">> \o PadNumber(ymd[2], 2)
            \o <<"-">> \o PadNumber(ymd[3], 2)

\* ------------------------------------------------------------------------
\* ParseWeatherDriver::checkDateRange and ParseWeatherDriver::runMeanOption

DateRangeLength == 21

\* ParseWeatherDriver::checkDateRange
checkDateRange(range_string) ==
    IF Len(range_string) # DateRangeLength
    THEN FALSE
    ELSE LET startUnix  == dateToUnix(substr(range_string, 0, 10))
             finishUnix == dateToUnix(substrFrom(range_string, 11))
         IN  /\ has_value(startUnix)
             /\ has_value(finishUnix)
             /\ value(startUnix) <= value(finishUnix)

\* The characters of the variable name strings.
Chars(name) ==
    CASE name = TMAX_KEY  -> <<"t", "m", "a", "x">>
      [] name = TMIN_KEY  -> <<"t", "m", "i", "n">>
      [] name = TMEAN_KEY -> <<"t", "m", "e", "a", "n">>
      [] name = PPT_KEY   -> <<"p", "p", "t">>

\* Faulty variant: a name that is not found stands for the first variable.
FindVariableOrFirst(str) ==
    IF \E i \in 1..Len(VariableStrings) : Chars(VariableStrings[i]) = str
    THEN CHOOSE i \in 1..Len(VariableStrings) :
            Chars(VariableStrings[i]) = str
    ELSE 1

\* std::find(VariableStrings.cbegin(), VariableStrings.cend(), str): the
\* position of str, Len(VariableStrings) + 1 being cend().
FindVariable(str) ==
    IF \E i \in 1..Len(VariableStrings) : Chars(VariableStrings[i]) = str
    THEN CHOOSE i \in 1..Len(VariableStrings) :
            Chars(VariableStrings[i]) = str
    ELSE Len(VariableStrings) + 1

\* calcVariableMean(range_string, variable_name) on the archive m: the two
\* dates of range_string are converted and the mean taken between them.
calcVariableMeanOfRange(m, range_string, variable_name) ==
    LET startUnix  == dateToUnix(substr(range_string, 0, 10))
        finishUnix == dateToUnix(substr(range_string, 11, 10))
    IN  calcVariableMean(m, value(startUnix), value(finishUnix),
                         variable_name)

\* What a run of runMeanOption does: it throws CLI::ValidationError, or it
\* computes a mean and writes either the mean to std::cout or the message
\* that no mean could be calculated to std::cerr.
MeanThrows == [thrown |-> TRUE, mean |-> nullopt, cout |-> nullopt,
               cerr |-> FALSE]

MeanReport(mean) ==
    IF isnan(mean)
    THEN [thrown |-> FALSE, mean |-> {mean}, cout |-> nullopt, cerr |-> TRUE]
    ELSE [thrown |-> FALSE, mean |-> {mean}, cout |-> {mean}, cerr |-> FALSE]

\* ParseWeatherDriver::runMeanOption on the archive m.
runMeanOption(m, mOptionMultiString) ==
    IF Len(mOptionMultiString) # 2
    THEN MeanThrows
    ELSE IF checkDateRange(mOptionMultiString[1])
    THEN LET it == FindVariable(mOptionMultiString[2])
         IN  IF it # Len(VariableStrings) + 1
             THEN MeanReport(calcVariableMeanOfRange(
                      m, mOptionMultiString[1], VariableStrings[it]))
             ELSE MeanThrows
    ELSE IF checkDateRange(mOptionMultiString[2])
    THEN LET it == FindVariable(mOptionMultiString[1])
         IN  IF it # Len(VariableStrings) + 1
             THEN MeanReport(calcVariableMeanOfRange(
                      m, mOptionMultiString[2], VariableStrings[it]))
             ELSE MeanThrows
    ELSE MeanThrows

\* The archive after addData of each record of a sequence, in order.
RECURSIVE AddAll(_, _)
AddAll(m, records) ==
    IF records = <<>>
    THEN m
    ELSE AddAll(addData(m, Head(records)), Tail(records))

\* The first day of the archives the mean is asked of, 2022-01-01.
MeanEpochDay == days_from_civil(2022, 1, 1)

\* The timestamp of the day t days after it.
MeanDay(t) == (MeanEpochDay + t) * SecondsPerDay

\* The archives the mean is asked of: on each of the days of Times either
\* nothing or a record with one of the measurement sets.
RECURSIVE MeanRecords(_, _)
MeanRecords(choice, t) ==
    IF t > MaxTime
    THEN <<>>
    ELSE (IF choice[t] = <<>>
          THEN <<>>
          ELSE <<WeatherData({MeanDay(t)}, choice[t][1], choice[t][2],
                             choice[t][3], choice[t][4])>>)
         \o MeanRecords(choice, t + 1)

MeanArchives ==
    { AddAll(<<>>, MeanRecords(choice, 0)) :
        choice \in [Times -> Measurements \cup {<<>>}] }

\* The strings given to --mean: the date ranges between two of the days,
\* in either order, the variable names and a name that is none of them.
RangeString(a, b) == unixToDate(MeanDay(a)) \o <<"|">> \o unixToDate(MeanDay(b))

MeanOptionStrings ==
    { RangeString(a, b) : a \in Times, b \in Times }
      \cup { Chars(VariableStrings[i]) : i \in 1..Len(VariableStrings) }
      \cup { <<"t", "e", "m", "p">> }

InitMean ==
    /\ mWeatherMap \in MeanArchives
    /\ lastAdded = [t \in Times |-> nullopt]
    /\ outOfOrder = FALSE
    /\ op = [name |-> "none"]

\* runMeanOption with the two strings of the --mean option.
RunMeanOption(mOptionMultiString) ==
    /\ op.name = "none"
    /\ op' = [name |-> "runMeanOption",
              mOptionMultiString |-> mOptionMultiString,
              ret |-> runMeanOption(mWeatherMap, mOptionMultiString)]
    /\ UNCHANGED <<mWeatherMap, lastAdded, outOfOrder>>

NextMean ==
    \E a \in MeanOptionStrings, b \in MeanOptionStrings :
        RunMeanOption(<<a, b>>)

SpecMean == InitMean /\ [][NextMean]_vars

\* The --mean strings of the last call, date range first: <<range, name>>
\* if one of the two is a date range that checkDateRange accepts (the first
\* one taking precedence), the unset optional if neither is.
MeanArguments ==
    LET a == op.mOptionMultiString
    IN  IF checkDateRange(a[1]) THEN {<<a[1], a[2]>>}
        ELSE IF checkDateRange(a[2]) THEN {<<a[2], a[1]>>}
        ELSE nullopt

\* The variable names whose characters are str.
NamesOf(str) ==
    {VariableStrings[i] : i \in {j \in 1..Len(VariableStrings) :
                                    Chars(VariableStrings[j]) = str}}

\* The records stored from the first date of range_string on, when that
\* date is a key: what retrieveRange fetches for the range.
FetchedFor(range_string) ==
    retrieveRange(mWeatherMap,
                  value(dateToUnix(substr(range_string, 0, 10))),
                  value(dateToUnix(substr(range_string, 11, 10))))

\* C11: when runMeanOption computes a mean, the mean is NaN exactly when no
\* record of the fetched range has the variable (an empty archive, a start
\* date that is not stored, records that all lack it); a NaN is reported on
\* std::cerr and nothing is printed, any other mean is printed.
C11_NaNIffNothingPresent ==
    (op.name = "runMeanOption" /\ has_value(op.ret.mean)) =>
        LET args == value(MeanArguments)
            fetched == FetchedFor(args[1])
            f == FieldOf(CHOOSE n \in NamesOf(args[2]) : TRUE)
            none == \A i \in 1..Len(fetched) : ~has_value(fetched[i][f])
            mean == value(op.ret.mean)
        IN  /\ isnan(mean) <=> none
            /\ isnan(mean) => (op.ret.cerr /\ op.ret.cout = nullopt)
            /\ ~isnan(mean) => (~op.ret.cerr /\ op.ret.cout = {mean})
            /\ ~op.ret.thrown

\* C11 witness: the mean of a variable was asked over a range whose start is
\* stored and whose records all lack it, the archive holding the variable on
\* a day before the range, and the outcome was the NaN report.
C11_Witness ==
    /\ op.name = "runMeanOption"
    /\ has_value(op.ret.mean)
    /\ isnan(value(op.ret.mean))
    /\ op.ret.cerr
    /\ NamesOf(value(MeanArguments)[2]) = {TMIN_KEY}
    /\ Len(FetchedFor(value(MeanArguments)[1])) >= 2
    /\ \E i \in 1..Len(mWeatherMap) : has_value(mWeatherMap[i].data.minTemp)

\* C12: a mean query whose variable argument is none of tmax, tmin, tmean
\* and ppt ends in the validation error, whichever of the two arguments is
\* the date range, and neither computes nor prints a mean.
C12_UnknownVariableThrows ==
    op.name = "runMeanOption" =>
        LET a == op.mOptionMultiString
            variable == IF has_value(MeanArguments)
                        THEN value(MeanArguments)[2]
                        ELSE a[1]
        IN  NamesOf(variable) = {} =>
                /\ op.ret.thrown
                /\ op.ret.mean = nullopt
                /\ op.ret.cout = nullopt
                /\ ~op.ret.cerr

\* C12 witness: the variable came first and was not a variable name, the
\* date range second and valid, with tmax stored in the range; the call
\* threw.
C12_Witness ==
    /\ op.name = "runMeanOption"
    /\ op.mOptionMultiString[1] = <<"t", "e", "m", "p">>
    /\ checkDateRange(op.mOptionMultiString[2])
    /\ \E i \in 1..Len(FetchedFor(op.mOptionMultiString[2])) :
          has_value(FetchedFor(op.mOptionMultiString[2])[i].maxTemp)
    /\ op.ret.thrown

\* ------------------------------------------------------------------------
\* ParseWeatherDriver::sampleHistoricalData

\* Most days of a sampled date range, and most years of a sampled year range.
MaxSampleDays == 2

MaxSampleYears == 3

\* Faulty variant: the vector of sample years is one element too long.
SampleYearsOneMore(startSampleYears, finishSampleYears) ==
    [k \in 1..(finishSampleYears - startSampleYears + 2) |->
        startSampleYears + k - 1]

\* std::vector<int> sampleYears(finish - start + 1) filled by std::iota.
SampleYears(startSampleYears, finishSampleYears) ==
    [k \in 1..(finishSampleYears - startSampleYears + 1) |->
        startSampleYears + k - 1]

\* The outcomes of std::shuffle on a vector: its permutations.
Shuffles(v) ==
    { p \in [1..Len(v) -> {v[k] : k \in 1..Len(v)}] :
        \A a \in 1..Len(v), b \in 1..Len(v) : a # b => p[a] # p[b] }

\* The time the archive is asked for in a sample year: the seconds of
\* date::sys_days{date::year{year}/ymd.month()/ymd.day()}.
SampleTime(year, ymd) == days_from_civil(year, ymd[2], ymd[3]) * SecondsPerDay

\* Faulty variant: only the year in front of the shuffled vector is tried.
RECURSIVE SampleWalkFirstOnly(_, _, _, _)
SampleWalkFirstOnly(m, years, ymd, lookups) ==
    IF years = <<>>
    THEN [sampleData |-> nullopt, lookups |-> lookups]
    ELSE [sampleData |-> retrieve(m, SampleTime(Head(years), ymd)),
          lookups |-> Append(lookups, SampleTime(Head(years), ymd))]

\* Faulty variant: a record that lacks the maximum temperature counts as no data.
RECURSIVE SampleWalkWithTmax(_, _, _, _)
SampleWalkWithTmax(m, years, ymd, lookups) ==
    IF years = <<>>
    THEN [sampleData |-> nullopt, lookups |-> lookups]
    ELSE LET time == SampleTime(Head(years), ymd)
             sampleData == retrieve(m, time)
         IN  IF has_value(sampleData)
                 /\ has_value(value(sampleData).maxTemp)
             THEN [sampleData |-> sampleData,
                   lookups |-> Append(lookups, time)]
             ELSE SampleWalkWithTmax(m, Tail(years), ymd,
                                     Append(lookups, time))

\* The lambda of sampleHistoricalData: the years are tried in their
\* shuffled order and the first record retrieve finds is returned; lookups
\* are the times retrieve was called with.
RECURSIVE SampleWalk(_, _, _, _)
SampleWalk(m, years, ymd, lookups) ==
    IF years = <<>>
    THEN [sampleData |-> nullopt, lookups |-> lookups]
    ELSE LET time == SampleTime(Head(years), ymd)
             sampleData == retrieve(m, time)
         IN  IF has_value(sampleData)
             THEN [sampleData |-> sampleData,
                   lookups |-> Append(lookups, time)]
             ELSE SampleWalk(m, Tail(years), ymd, Append(lookups, time))

\* Faulty variant: the sampled record keeps the time it was stored under.
RestampKeep(data, i) == data

\* dataOpt.value().time = seconds of day i.
Restamp(data, i) == [data EXCEPT !.time = {i * SecondsPerDay}]

\* Faulty variant: dataOpt refers to the record inside the archive, and the
\* assignment of the time reaches the stored record.
ArchiveAfterRestampStored(m, data, i) ==
    LET it == MapFind(m, value(data.time))
    IN  IF it # MapEnd(m)
        THEN [m EXCEPT ![it].data = Restamp(m[it].data, i)]
        ELSE m

\* The archive after dataOpt.value().time is assigned: retrieve and the
\* lambda return the record by value, so the assignment is to a copy.
ArchiveAfterRestamp(m, data, i) == m

\* The stored records a sample draws from: Feb 29 of a leap year, the days
\* around the missing Feb 29 of the next year, and three first days of June
\* of which the last has no maximum temperature.
SampleStored ==
    << WeatherData({days_from_civil(2020, 2, 29) * SecondsPerDay},
                   {1}, {2}, {}, {1}),
       WeatherData({days_from_civil(2021, 2, 28) * SecondsPerDay},
                   {}, {0}, {3}, {}),
       WeatherData({days_from_civil(2021, 3, 1) * SecondsPerDay},
                   {2}, {}, {1}, {2}),
       WeatherData({days_from_civil(2020, 6, 1) * SecondsPerDay},
                   {20}, {10}, {}, {}),
       WeatherData({days_from_civil(2021, 6, 1) * SecondsPerDay},
                   {25}, {12}, {}, {}),
       WeatherData({days_from_civil(2022, 6, 1) * SecondsPerDay},
                   {}, {11}, {}, {}) >>

RECURSIVE SampleRecords(_, _)
SampleRecords(chosen, k) ==
    IF k > Len(SampleStored)
    THEN <<>>
    ELSE (IF k \in chosen THEN <<SampleStored[k]>> ELSE <<>>)
         \o SampleRecords(chosen, k + 1)

SampleArchives ==
    { AddAll(<<>>, SampleRecords(chosen, 1)) :
        chosen \in SUBSET (1..Len(SampleStored)) }

\* The date ranges sampled: up to MaxSampleDays days from 2024-02-28 or
\* from 2023-06-01.
SampleDateRanges ==
    { unixToDate(first * SecondsPerDay) \o <<"|">>
        \o unixToDate((first + n) * SecondsPerDay) :
        first \in {days_from_civil(2024, 2, 28), days_from_civil(2023, 6, 1)},
        n \in 0..(MaxSampleDays - 1) }

\* The year ranges sampled: low|high with 2020 <= low <= high.
SampleYearRanges ==
    { PadNumber(2020 + y[1], 4) \o <<"|">> \o PadNumber(2020 + y[2], 4) :
        y \in { p \in (0..(MaxSampleYears - 1)) \X (0..(MaxSampleYears - 1)) :
                  p[1] <= p[2] } }

InitSample ==
    /\ mWeatherMap \in SampleArchives
    /\ lastAdded = [t \in Times |-> nullopt]
    /\ outOfOrder = FALSE
    /\ op = [name |-> "none"]

\* A call of sampleHistoricalData has been made and has not returned: the
\* program is single threaded, and no other call starts before it does.
SampleRunning == op.name = "sampleHistoricalData" /\ ~op.returned

\* The call of sampleHistoricalData up to its loop: both dates of
\* date_range are matched and converted, the years read from year_range.
SampleHistoricalData(date_range, year_range) ==
    /\ ~SampleRunning
    /\ LET startMatch == DateRegexMatch(substr(date_range, 0, 10))
           finishMatch == DateRegexMatch(substrFrom(date_range, 11))
           startSampleYears == stoi(substr(year_range, 0, 4))
           finishSampleYears == stoi(substrFrom(year_range, 5))
           call == [name |-> "sampleHistoricalData",
                    date_range |-> date_range, year_range |-> year_range,
                    sampleYears |-> <<>>, lookups |-> <<>>,
                    i |-> 0, finishDays |-> 0,
                    retData |-> <<>>, returned |-> TRUE]
       IN  op' = IF has_value(startMatch) /\ has_value(finishMatch)
                 THEN [call EXCEPT
                         !.i = UnixOfGroups(value(startMatch))
                                  \div SecondsPerDay,
                         !.finishDays = UnixOfGroups(value(finishMatch))
                                  \div SecondsPerDay,
                         !.sampleYears = SampleYears(startSampleYears,
                                                     finishSampleYears),
                         !.returned = FALSE]
                 ELSE call
    /\ UNCHANGED <<mWeatherMap, lastAdded, outOfOrder>>

\* One pass of the loop over the days: the years are shuffled, the walk
\* made, and a record found is re-stamped with day i and pushed.
SampleDay(shuffled) ==
    /\ op.name = "sampleHistoricalData"
    /\ ~op.returned
    /\ op.i <= op.finishDays
    /\ LET ymd == civil_from_days(op.i)
           dataOpt == SampleWalk(mWeatherMap, shuffled, ymd, <<>>)
       IN  /\ op' = [op EXCEPT
                       !.sampleYears = shuffled,
                       !.lookups = dataOpt.lookups,
                       !.retData =
                           IF has_value(dataOpt.sampleData)
                           THEN Append(@, Restamp(value(dataOpt.sampleData),
                                                  op.i))
                           ELSE @,
                       !.i = @ + 1]
           /\ mWeatherMap' =
                 IF has_value(dataOpt.sampleData)
                 THEN ArchiveAfterRestamp(mWeatherMap,
                                          value(dataOpt.sampleData), op.i)
                 ELSE mWeatherMap
    /\ UNCHANGED <<lastAdded, outOfOrder>>

\* The loop is over: retData is returned.
SampleReturn ==
    /\ op.name = "sampleHistoricalData"
    /\ ~op.returned
    /\ op.i > op.finishDays
    /\ op' = [op EXCEPT !.returned = TRUE]
    /\ UNCHANGED <<mWeatherMap, lastAdded, outOfOrder>>

NextSample ==
    \/ \E date_range \in SampleDateRanges, year_range \in SampleYearRanges :
          SampleHistoricalData(date_range, year_range)
    \/ /\ op.name = "sampleHistoricalData"
       /\ \E shuffled \in Shuffles(op.sampleYears) : SampleDay(shuffled)
    \/ SampleReturn

SpecSample == InitSample /\ [][NextSample]_vars

\* The call of sampleHistoricalData the state is in or after.
SampleCall == op.name = "sampleHistoricalData"

\* The first and the last day asked for, as day counts, and the two years
\* that bound the sample years.
SampleStartDay ==
    value(dateToUnix(substr(op.date_range, 0, 10))) \div SecondsPerDay

SampleFinishDay ==
    value(dateToUnix(substrFrom(op.date_range, 11))) \div SecondsPerDay

SampleLow == stoi(substr(op.year_range, 0, 4))

SampleHigh == stoi(substrFrom(op.year_range, 5))

\* The year, and the month and day of the month, of a time in seconds.
YearOf(time) == civil_from_days(time \div SecondsPerDay)[1]

MonthDayOf(time) ==
    <<civil_from_days(time \div SecondsPerDay)[2],
      civil_from_days(time \div SecondsPerDay)[3]>>

\* Two records agree on all four measurements, present or absent.
SameMeasurements(a, b) ==
    /\ a.maxTemp = b.maxTemp
    /\ a.minTemp = b.minTemp
    /\ a.meanTemp = b.meanTemp
    /\ a.gas_ppt = b.gas_ppt

\* The positions of the archive whose record is dated in a year of the
\* year range on the month and day of day D.
StoredForDay(D) ==
    { i \in 1..Len(mWeatherMap) :
        /\ YearOf(mWeatherMap[i].key) \in SampleLow..SampleHigh
        /\ MonthDayOf(mWeatherMap[i].key) = MonthDayOf(D * SecondsPerDay) }

\* The positions of the output whose record is dated day D.
ReturnedOn(D) ==
    { k \in 1..Len(op.retData) : op.retData[k].time = {D * SecondsPerDay} }

\* C13: every record of the sample output is stamped with the epoch value
\* of a day between the first and the last day of the date range, and the
\* output is strictly ascending by that day, no day occurring twice.
C13_SampledDaysAscending ==
    SampleCall =>
        /\ \A k \in 1..Len(op.retData) :
              \E D \in SampleStartDay..SampleFinishDay :
                  op.retData[k].time = {D * SecondsPerDay}
        /\ \A k \in 1..(Len(op.retData) - 1) :
              value(op.retData[k].time) < value(op.retData[k + 1].time)

\* C13 witness: a sample has returned records for two days of its range.
C13_Witness ==
    /\ SampleCall
    /\ op.returned
    /\ Len(op.retData) >= 2
    /\ SampleFinishDay > SampleStartDay

\* C14: every record of the sample output has the four measurements,
\* present or absent, of a record stored under a date in a year of the year
\* range, whatever the shuffles were.
C14_SampledFromYearsInRange ==
    SampleCall =>
        \A k \in 1..Len(op.retData) :
            \E i \in 1..Len(mWeatherMap) :
                /\ YearOf(mWeatherMap[i].key) \in SampleLow..SampleHigh
                /\ SameMeasurements(mWeatherMap[i].data, op.retData[k])

\* C14 witness: a sample of a single year has returned a record while the
\* archive holds, for the same month and day, a record of another year.
C14_Witness ==
    /\ SampleCall
    /\ op.returned
    /\ SampleLow = SampleHigh
    /\ Len(op.retData) >= 1
    /\ \E i \in 1..Len(mWeatherMap) :
          /\ YearOf(mWeatherMap[i].key) # SampleLow
          /\ MonthDayOf(mWeatherMap[i].key)
                = MonthDayOf(value(op.retData[1].time))

\* C15: a sample year in which the month and day of the sampled day do not
\* exist is not looked up (every time the archive is asked for has the
\* month and day of the sampled day), so every output record has the
\* measurements of a record stored on its own month and day.
C15_SameMonthAndDay ==
    SampleCall =>
        /\ \A j \in 1..Len(op.lookups) :
              MonthDayOf(op.lookups[j])
                 = MonthDayOf((op.i - 1) * SecondsPerDay)
        /\ \A k \in 1..Len(op.retData) :
              \E i \in 1..Len(mWeatherMap) :
                 /\ MonthDayOf(mWeatherMap[i].key)
                       = MonthDayOf(value(op.retData[k].time))
                 /\ SameMeasurements(mWeatherMap[i].data, op.retData[k])

\* C16: a day for which no year of the year range has a record stored on
\* its month and day has no record in the output, and the output is never
\* longer than the number of days of the date range.
C16_OmittedWhenNoYearHasData ==
    SampleCall =>
        /\ \A D \in SampleStartDay..SampleFinishDay :
              StoredForDay(D) = {} => ReturnedOn(D) = {}
        /\ Len(op.retData) <= SampleFinishDay - SampleStartDay + 1

\* C17: once a day D is done for which some year of the year range has a
\* record on D's month and day, the output has exactly one record dated D,
\* whatever the shuffle; the walk asks the archive for the shuffled years in
\* order, each year of the range being in the shuffled vector once, and
\* stops at the first one that has a record.
C17_ExactlyOneWhenSomeYearHasData ==
    SampleCall =>
        /\ \A D \in SampleStartDay..(op.i - 1) :
              StoredForDay(D) # {} => Cardinality(ReturnedOn(D)) = 1
        /\ op.i > SampleStartDay =>
              LET n == Len(op.lookups)
              IN  /\ Len(op.sampleYears) = SampleHigh - SampleLow + 1
                  /\ {op.sampleYears[j] : j \in 1..Len(op.sampleYears)}
                        = SampleLow..SampleHigh
                  /\ n <= Len(op.sampleYears)
                  /\ \A j \in 1..n : YearOf(op.lookups[j]) = op.sampleYears[j]
                  /\ \A j \in 1..(n - 1) :
                        ~has_value(retrieve(mWeatherMap, op.lookups[j]))
                  /\ IF ReturnedOn(op.i - 1) # {}
                     THEN has_value(retrieve(mWeatherMap, op.lookups[n]))
                     ELSE n = Len(op.sampleYears)

\* C17 witness: the year the shuffle put first had no record for the day,
\* a later one had, and the walk stopped there before the end of the vector.
C17_Witness ==
    /\ SampleCall
    /\ op.i > SampleStartDay
    /\ Len(op.lookups) >= 2
    /\ Len(op.lookups) < Len(op.sampleYears)
    /\ Cardinality(ReturnedOn(op.i - 1)) = 1

\* The scenario of C18: the archive holds 2020-06-01 (tmax 20), 2021-06-01
\* (tmax 25) and 2022-06-01 (no tmax), and the single day 2023-06-01 has
\* been sampled over 2020..2022.
JuneArchive == AddAll(<<>>, SubSeq(SampleStored, 4, 6))

JuneDay == days_from_civil(2023, 6, 1)

JuneSampled ==
    /\ SampleCall
    /\ op.returned
    /\ mWeatherMap = JuneArchive
    /\ op.date_range = unixToDate(JuneDay * SecondsPerDay) \o <<"|">>
                          \o unixToDate(JuneDay * SecondsPerDay)
    /\ op.year_range = <<"2", "0", "2", "0", "|", "2", "0", "2", "2">>

\* C18 as stated: the sample is one record dated 2023-06-01 whose tmax is
\* 20 or 25, never absent.
C18_TmaxNeverAbsent ==
    JuneSampled =>
        /\ Len(op.retData) = 1
        /\ op.retData[1].time = {JuneDay * SecondsPerDay}
        /\ op.retData[1].maxTemp \in {{20}, {25}}

\* C18: the sample is one record dated 2023-06-01 with the measurements of
\* the June 1 record of the year the shuffle put first, so that its tmax is
\* 20, 25 or absent.
C18_RecordOfFirstShuffledYear ==
    JuneSampled =>
        /\ Len(op.retData) = 1
        /\ op.retData[1].time = {JuneDay * SecondsPerDay}
        /\ op.retData[1].maxTemp \in {{20}, {25}, nullopt}
        /\ \E i \in 1..Len(mWeatherMap) :
              /\ YearOf(mWeatherMap[i].key) = op.sampleYears[1]
              /\ SameMeasurements(mWeatherMap[i].data, op.retData[1])

\* C18 witness: the shuffle put 2022 first and the record returned for
\* 2023-06-01 has no tmax.
C18_Witness ==
    /\ JuneSampled
    /\ op.sampleYears[1] = 2022
    /\ Len(op.retData) = 1
    /\ op.retData[1].maxTemp = nullopt

\* ------------------------------------------------------------------------
\* Json::Value, jsonparse::parseWeather and ParseWeatherDriver::readInputFile

DATE_KEY == "date"

\* Json::Value: a null, a number, a string (its characters), an array (the
\* sequence of its elements) or an object (a function from its member
\* names to their values).
JsonNull == [type |-> "null"]

JsonNumber(n) == [type |-> "number", n |-> n]

JsonString(str) == [type |-> "string", str |-> str]

JsonArray(elems) == [type |-> "array", elems |-> elems]

JsonObject(members) == [type |-> "object", members |-> members]

isObject(schema) == schema.type = "object"

isArray(schema) == schema.type = "array"

isString(schema) == schema.type = "string"

isNumeric(schema) == schema.type = "number"

\* schema.isMember(key) && schema[key].isString()
isStringMember(schema, key) ==
    key \in DOMAIN schema.members /\ isString(schema.members[key])

\* schema.isMember(key) && schema[key].isNumeric(), as the optional holding
\* schema[key].asDouble().
NumericMember(schema, key) ==
    IF key \in DOMAIN schema.members /\ isNumeric(schema.members[key])
    THEN {schema.members[key].n}
    ELSE nullopt

\* Faulty variant: a value that is not an object parses as a record with
\* nothing set.
parseWeatherLenient(schema) ==
    IF ~isObject(schema)
    THEN [thrown |-> FALSE,
          data |-> WeatherData(nullopt, nullopt, nullopt, nullopt, nullopt)]
    ELSE [thrown |-> FALSE,
          data |-> WeatherData(
              IF isStringMember(schema, DATE_KEY)
              THEN dateToUnix(schema.members[DATE_KEY].str)
              ELSE nullopt,
              NumericMember(schema, TMAX_KEY),
              NumericMember(schema, TMIN_KEY),
              NumericMember(schema, TMEAN_KEY),
              NumericMember(schema, PPT_KEY))]

\* jsonparse::parseWeather: IncorrectJson is thrown for a value that is not
\* an object, otherwise the record of the members present with the right
\* type is returned.
parseWeather(schema) ==
    IF ~isObject(schema)
    THEN [thrown |-> TRUE]
    ELSE [thrown |-> FALSE,
          data |-> WeatherData(
              IF isStringMember(schema, DATE_KEY)
              THEN dateToUnix(schema.members[DATE_KEY].str)
              ELSE nullopt,
              NumericMember(schema, TMAX_KEY),
              NumericMember(schema, TMIN_KEY),
              NumericMember(schema, TMEAN_KEY),
              NumericMember(schema, PPT_KEY))]

\* jsonparse::jsonFromString on the content of the file: the document, or
\* IncorrectJson when the content does not parse.
jsonFromString(file) ==
    IF file.parses
    THEN [thrown |-> FALSE, schema |-> file.json]
    ELSE [thrown |-> TRUE]

\* Faulty variant: an element that does not parse is passed over and the
\* elements after it are still added.
RECURSIVE ReadArrayContinue(_, _, _)
ReadArrayContinue(m, schema, i) ==
    IF i >= Len(schema.elems)
    THEN [ret |-> TRUE, mArchive |-> m]
    ELSE LET weather == parseWeather(schema.elems[i + 1])
         IN  IF weather.thrown
             THEN [ret |-> FALSE,
                   mArchive |-> ReadArrayContinue(m, schema, i + 1).mArchive]
             ELSE ReadArrayContinue(addData(m, weather.data), schema, i + 1)

\* The loop of readInputFile over an array, from element i: each element
\* is parsed and added; the first IncorrectJson ends the call with false.
RECURSIVE ReadArray(_, _, _)
ReadArray(m, schema, i) ==
    IF i >= Len(schema.elems)
    THEN [ret |-> TRUE, mArchive |-> m]
    ELSE LET weather == parseWeather(schema.elems[i + 1])
         IN  IF weather.thrown
             THEN [ret |-> FALSE, mArchive |-> m]
             ELSE ReadArray(addData(m, weather.data), schema, i + 1)

\* ParseWeatherDriver::readInputFile: the value returned and mArchive after
\* the call.
readInputFile(m, file) ==
    LET parsed == jsonFromString(file)
    IN  IF parsed.thrown
        THEN [ret |-> FALSE, mArchive |-> m]
        ELSE IF isArray(parsed.schema)
        THEN ReadArray(m, parsed.schema, 0)
        ELSE IF isObject(parsed.schema)
        THEN LET weather == parseWeather(parsed.schema)
             IN  IF weather.thrown
                 THEN [ret |-> FALSE, mArchive |-> m]
                 ELSE [ret |-> TRUE, mArchive |-> addData(m, weather.data)]
        ELSE [ret |-> TRUE, mArchive |-> m]

\* Most elements of an array read from a file.
MaxElements == 3

\* The values files are made of: weather objects on two days (one day
\* twice), an object whose tmax is a string, objects with no date, with a
\* number for a date and with a date that is none, and values that are not
\* objects.
FileObjects ==
    { JsonObject((DATE_KEY :> JsonString(unixToDate(MeanDay(0))))
                    @@ (TMAX_KEY :> JsonNumber(1))),
      JsonObject((DATE_KEY :> JsonString(unixToDate(MeanDay(0))))
                    @@ (TMEAN_KEY :> JsonNumber(3))),
      JsonObject((DATE_KEY :> JsonString(unixToDate(MeanDay(1))))
                    @@ (TMAX_KEY :> JsonString(<<"h", "o", "t">>))
                    @@ (TMIN_KEY :> JsonNumber(2))),
      JsonObject((TMAX_KEY :> JsonNumber(5)) @@ (PPT_KEY :> JsonNumber(4))),
      JsonObject((DATE_KEY :> JsonNumber(20220101))),
      JsonObject((DATE_KEY :> JsonString(<<"n", "o", "n", "e">>))
                    @@ (TMIN_KEY :> JsonNumber(0))) }

FileScalars ==
    { JsonNull, JsonNumber(7), JsonString(unixToDate(MeanDay(0))) }

FileArrays ==
    UNION { { JsonArray(elems) :
                elems \in [1..n -> FileObjects \cup FileScalars] } :
            n \in 0..MaxElements }

\* The files: one whose content is not JSON, and the documents.
InputFiles ==
    { [parses |-> FALSE] }
      \cup { [parses |-> TRUE, json |-> v] :
               v \in FileArrays \cup FileObjects \cup FileScalars }

\* The driver before run() reads the file: the archive is empty.
InitLoad ==
    /\ mWeatherMap = <<>>
    /\ lastAdded = [t \in Times |-> nullopt]
    /\ outOfOrder = FALSE
    /\ op = [name |-> "none"]

\* readInputFile on a file.
ReadInputFile(file) ==
    /\ op.name = "none"
    /\ LET call == readInputFile(mWeatherMap, file)
       IN  /\ mWeatherMap' = call.mArchive
           /\ op' = [name |-> "readInputFile", file |-> file,
                     before |-> mWeatherMap, ret |-> call.ret]
    /\ UNCHANGED <<lastAdded, outOfOrder>>

NextLoad == \E file \in InputFiles : ReadInputFile(file)

SpecLoad == InitLoad /\ [][NextLoad]_vars

\* The elements of the array the last call read, and the position (from 1)
\* of the first of them that is not an object, 0 if all are objects.
ReadElements == op.file.json.elems

FirstNonObject ==
    IF \E i \in 1..Len(ReadElements) : ~isObject(ReadElements[i])
    THEN CHOOSE i \in 1..Len(ReadElements) :
            /\ ~isObject(ReadElements[i])
            /\ \A j \in 1..(i - 1) : isObject(ReadElements[j])
    ELSE 0

\* The records of the objects among the first n elements.
RecordsOfFirst(n) == [k \in 1..n |-> parseWeather(ReadElements[k]).data]

\* C19: when the document is an array with an element that is not an
\* object, readInputFile returns false and the archive is what addData of
\* the elements before the first such element, in order, makes of the
\* archive of before the call; nothing of that element or a later one is in.
C19_PartialLoadUpToFailure ==
    (/\ op.name = "readInputFile"
     /\ op.file.parses
     /\ isArray(op.file.json)
     /\ FirstNonObject # 0) =>
        /\ op.ret = FALSE
        /\ mWeatherMap = AddAll(op.before, RecordsOfFirst(FirstNonObject - 1))

\* C19 witness: the second element of the array was not an object, the
\* first was stored, and the third is a dated object that was not.
C19_Witness ==
    /\ op.name = "readInputFile"
    /\ op.file.parses
    /\ isArray(op.file.json)
    /\ Len(ReadElements) >= 3
    /\ FirstNonObject = 2
    /\ Len(mWeatherMap) = 1
    /\ isObject(ReadElements[3])
    /\ has_value(parseWeather(ReadElements[3]).data.time)
    /\ value(parseWeather(ReadElements[3]).data.time) # mWeatherMap[1].key
    /\ op.ret = FALSE

\* C20: when readInputFile returns false, mArchive is as it was before the
\* call.
C20_FalseLeavesArchive ==
    (op.name = "readInputFile" /\ op.ret = FALSE) =>
        mWeatherMap = op.before

\* ------------------------------------------------------------------------
\* jsonparse::createWeatherJson, and the calls of the jsonparse functions

\* The member of an object for an optional field: a number under key when
\* the field is set, nothing when it is not.
NumberMember(key, field) ==
    IF has_value(field) THEN key :> JsonNumber(value(field)) ELSE <<>>

\* Json::Value root after the assignments root[KEY] = ... that were made:
\* root is constructed as the null value, and the first root[KEY] makes an
\* object of it, so a root no member was assigned to is still null.
RootOf(members) ==
    IF DOMAIN members = {} THEN JsonNull ELSE JsonObject(members)

\* jsonparse::createWeatherJson
createWeatherJson(weather_data) ==
    RootOf(
        (IF has_value(weather_data.time)
         THEN DATE_KEY :> JsonString(unixToDate(value(weather_data.time)))
         ELSE <<>>)
        @@ NumberMember(TMAX_KEY, weather_data.maxTemp)
        @@ NumberMember(TMIN_KEY, weather_data.minTemp)
        @@ NumberMember(TMEAN_KEY, weather_data.meanTemp)
        @@ NumberMember(PPT_KEY, weather_data.gas_ppt))

\* The years, months and days of the month date strings are written with.
DateYears == {1969, 1970, 2000, 2021, 2024, 2037}

DateMonths == 1..12

DateDaysOfMonth == 1..31

\* year-month-day written as yyyy-mm-dd.
DateString(year, month, day) ==
    PadNumber(year, 4) \o <<"-">> \o PadNumber(month, 2) \o <<"-">>
        \o PadNumber(day, 2)

\* The strings given to dateToUnix: every yyyy-mm-dd of those years, months
\* and days, whether the month has the day or not, and strings that are no
\* date, or a date among other characters, or a date of a year or a month
\* that dateRegex does not take.
DateStrings ==
    { DateString(y, m, d) :
        y \in DateYears, m \in DateMonths, d \in DateDaysOfMonth }
      \cup { <<>>, <<"n", "o", "n", "e">>,
             <<" ">> \o DateString(2016, 3, 3) \o <<" ">>,
             DateString(2021, 13, 1), DateString(2021, 0, 1),
             DateString(2021, 1, 0), DateString(2021, 1, 32),
             DateString(3000, 1, 1), DateString(999, 12, 31),
             SubSeq(DateString(2021, 1, 1), 1, 9) }

\* The values under the keys of the objects given to parseWeather: none (no
\* such key), and for the date a date, a date between blanks, a date whose
\* month lacks the day, a string that holds no date, a number and a null.
NoMember == [type |-> "absent"]

DateMembers ==
    { NoMember,
      JsonString(DateString(2016, 3, 3)),
      JsonString(<<" ">> \o DateString(2016, 3, 3) \o <<" ">>),
      JsonString(DateString(2021, 2, 30)),
      JsonString(<<"n", "o", "n", "e">>),
      JsonNumber(20160303),
      JsonNull }

MeasurementMembers ==
    { NoMember, JsonNumber(1), JsonString(<<"h", "o", "t">>) }

\* The object with the members given that are not NoMember.
ObjectOf(date, tmax, tmin, tmean, ppt) ==
    LET all == (DATE_KEY :> date) @@ (TMAX_KEY :> tmax) @@ (TMIN_KEY :> tmin)
                  @@ (TMEAN_KEY :> tmean) @@ (PPT_KEY :> ppt)
        present == {k \in DOMAIN all : all[k] # NoMember}
    IN  JsonObject([k \in present |-> all[k]])

\* The values given to parseWeather: objects, and values of the other
\* types.
ParseInputs ==
    { ObjectOf(date, tmax, tmin, tmean, ppt) :
        date \in DateMembers, tmax \in MeasurementMembers,
        tmin \in MeasurementMembers, tmean \in MeasurementMembers,
        ppt \in MeasurementMembers }
      \cup FileScalars
      \cup { JsonArray(<<>>),
             JsonArray(<<ObjectOf(JsonString(DateString(2016, 3, 3)),
                                  JsonNumber(1), NoMember, NoMember,
                                  NoMember)>>) }

\* The days records given to createWeatherJson are stamped with, as day
\* counts: the last day of 1969, the first of 1970, 1970-03-01, 2024-02-29
\* and the last day of 2037.
CodecDays ==
    { days_from_civil(1969, 12, 31), days_from_civil(1970, 1, 1),
      days_from_civil(1970, 3, 1), days_from_civil(2024, 2, 29),
      days_from_civil(2037, 12, 31) }

\* The records given to createWeatherJson: without a time, stamped with
\* the first second of a day, or with a second an hour into the day.
CreateInputs ==
    { WeatherData(t, m[1], m[2], m[3], m[4]) :
        t \in {nullopt} \cup {{d * SecondsPerDay} : d \in CodecDays}
                \cup {{d * SecondsPerDay + 3600} : d \in CodecDays},
        m \in Measurements }

InitCodec ==
    /\ mWeatherMap = <<>>
    /\ lastAdded = [t \in Times |-> nullopt]
    /\ outOfOrder = FALSE
    /\ op = [name |-> "none"]

\* jsonparse::dateToUnix(date_string)
DateToUnix(date_string) ==
    /\ op.name = "none"
    /\ op' = [name |-> "dateToUnix", date_string |-> date_string,
              ret |-> dateToUnix(date_string)]
    /\ UNCHANGED <<mWeatherMap, lastAdded, outOfOrder>>

\* jsonparse::unixToDate on the time dateToUnix returned.
UnixToDate ==
    /\ op.name = "dateToUnix"
    /\ has_value(op.ret)
    /\ op' = [name |-> "unixToDate", date_string |-> op.date_string,
              unix_time_sec |-> value(op.ret),
              ret |-> unixToDate(value(op.ret))]
    /\ UNCHANGED <<mWeatherMap, lastAdded, outOfOrder>>

\* jsonparse::parseWeather(schema)
ParseWeather(schema) ==
    /\ op.name = "none"
    /\ op' = [name |-> "parseWeather", schema |-> schema,
              ret |-> parseWeather(schema)]
    /\ UNCHANGED <<mWeatherMap, lastAdded, outOfOrder>>

\* jsonparse::createWeatherJson(weather_data)
CreateWeatherJson(weather_data) ==
    /\ op.name = "none"
    /\ op' = [name |-> "createWeatherJson", weather_data |-> weather_data,
              ret |-> createWeatherJson(weather_data)]
    /\ UNCHANGED <<mWeatherMap, lastAdded, outOfOrder>>

\* jsonparse::parseWeather on the object createWeatherJson returned.
ParseCreated ==
    /\ op.name = "createWeatherJson"
    /\ op' = [name |-> "parseCreated", weather_data |-> op.weather_data,
              schema |-> op.ret, ret |-> parseWeather(op.ret)]
    /\ UNCHANGED <<mWeatherMap, lastAdded, outOfOrder>>

NextCodec ==
    \/ \E date_string \in DateStrings : DateToUnix(date_string)
    \/ UnixToDate
    \/ \E schema \in ParseInputs : ParseWeather(schema)
    \/ \E weather_data \in CreateInputs : CreateWeatherJson(weather_data)
    \/ ParseCreated

SpecCodec == InitCodec /\ [][NextCodec]_vars

\* A string holds a date when some ten characters of it have the form of
\* dateRegex.
HoldsDate(str) == \E p \in 1..Len(str) : DateRegexAt(str, p)

\* The field of a parsed record for each measurement key.
ParsedField(data, key) ==
    CASE key = TMAX_KEY  -> data.maxTemp
      [] key = TMIN_KEY  -> data.minTemp
      [] key = TMEAN_KEY -> data.meanTemp
      [] key = PPT_KEY   -> data.gas_ppt

MeasurementKeys == {TMAX_KEY, TMIN_KEY, TMEAN_KEY, PPT_KEY}

FieldUnder(data, key) ==
    IF key = DATE_KEY THEN data.time ELSE ParsedField(data, key)

\* C22: createWeatherJson makes an object that has the key date, tmax,
\* tmin, tmean or ppt exactly when that field of the record is set, and
\* parsing it gives back, for a record stamped with the first second of a
\* day, the same fields set and the same time.
C22_CreateThenParse ==
    /\ op.name \in {"createWeatherJson", "parseCreated"} =>
          LET created == IF op.name = "createWeatherJson"
                         THEN op.ret ELSE op.schema
          IN  /\ isObject(created)
              /\ \A key \in MeasurementKeys \cup {DATE_KEY} :
                    key \in DOMAIN created.members
                       <=> has_value(FieldUnder(op.weather_data, key))
              /\ DOMAIN created.members
                    \subseteq MeasurementKeys \cup {DATE_KEY}
    /\ (/\ op.name = "parseCreated"
        /\ has_value(op.weather_data.time)
        /\ value(op.weather_data.time) % SecondsPerDay = 0) =>
          /\ ~op.ret.thrown
          /\ \A key \in MeasurementKeys :
                has_value(ParsedField(op.ret.data, key))
                   <=> has_value(ParsedField(op.weather_data, key))
          /\ op.ret.data.time = op.weather_data.time

\* The calendar: a year is a leap year when 4 divides it, unless 100 does
\* and 400 does not; the number of days of a month.
IsLeapYear(year) ==
    year % 4 = 0 /\ (year % 100 # 0 \/ year % 400 = 0)

DaysInMonth(year, month) ==
    IF month = 2
    THEN (IF IsLeapYear(year) THEN 29 ELSE 28)
    ELSE IF month \in {4, 6, 9, 11} THEN 30 ELSE 31

\* The strings yyyy-mm-dd that name a day of the calendar, and those of
\* the same form that name a day the month does not have.
CalendarDates ==
    { DateString(y, m, d) : y \in DateYears, m \in DateMonths,
                            d \in DateDaysOfMonth } \cap
    UNION { { DateString(y, m, d) : d \in 1..DaysInMonth(y, m) } :
              y \in DateYears, m \in DateMonths }

NoCalendarDates ==
    { DateString(y, m, d) : y \in DateYears, m \in DateMonths,
                            d \in DateDaysOfMonth } \ CalendarDates

\* The strings yyyy-mm-dd given to dateToUnix that name a day of the
\* calendar: those of DateYears, the first day of the year 3000 and the
\* last day of the year 999.
ValidDateStrings ==
    CalendarDates \cup {DateString(3000, 1, 1), DateString(999, 12, 31)}

\* C23: for every string yyyy-mm-dd that names a day of the calendar,
\* dateToUnix returns a time, and unixToDate of that time is the string.
C23_DateRoundTrip ==
    /\ (op.name = "dateToUnix" /\ op.date_string \in ValidDateStrings) =>
          has_value(op.ret)
    /\ (op.name = "unixToDate" /\ op.date_string \in ValidDateStrings) =>
          op.ret = op.date_string

\* C24: for a string of the yyyy-mm-dd form that names a day its month
\* does not have, dateToUnix returns no time.
C24_NoTimeForMissingDay ==
    (op.name = "dateToUnix" /\ op.date_string \in NoCalendarDates) =>
        op.ret = nullopt

\* ------------------------------------------------------------------------
\* WeatherData::operator== and WeatherData::operator!=

\* operator== and operator!= of std::optional: two optionals that both hold
\* a value compare as their values do, otherwise as whether they hold one.
OptionalEq(lhs, rhs) ==
    IF has_value(lhs) /\ has_value(rhs)
    THEN value(lhs) = value(rhs)
    ELSE has_value(lhs) = has_value(rhs)

OptionalNe(lhs, rhs) ==
    IF has_value(lhs) /\ has_value(rhs)
    THEN value(lhs) # value(rhs)
    ELSE has_value(lhs) # has_value(rhs)

\* WeatherData::operator!=
operatorNe(this, other) ==
    \/ OptionalNe(this.time, other.time)
    \/ OptionalNe(this.maxTemp, other.maxTemp)
    \/ OptionalNe(this.minTemp, other.minTemp)
    \/ OptionalNe(this.meanTemp, other.meanTemp)
    \/ OptionalNe(this.gas_ppt, other.gas_ppt)

\* Faulty variant: the last member is left out of the comparison.
operatorEqFourFields(this, other) ==
    /\ OptionalEq(this.time, other.time)
    /\ OptionalEq(this.maxTemp, other.maxTemp)
    /\ OptionalEq(this.minTemp, other.minTemp)
    /\ OptionalEq(this.meanTemp, other.meanTemp)

\* WeatherData::operator==
operatorEq(this, other) ==
    /\ OptionalEq(this.time, other.time)
    /\ OptionalEq(this.maxTemp, other.maxTemp)
    /\ OptionalEq(this.minTemp, other.minTemp)
    /\ OptionalEq(this.meanTemp, other.meanTemp)
    /\ OptionalEq(this.gas_ppt, other.gas_ppt)

\* The records compared: every member unset, 0 or 1.
ComparedValues == {nullopt, {0}, {1}}

ComparedData ==
    { WeatherData(t, tmax, tmin, tmean, ppt) :
        t \in ComparedValues, tmax \in ComparedValues,
        tmin \in ComparedValues, tmean \in ComparedValues,
        ppt \in ComparedValues }

InitCompare ==
    /\ mWeatherMap = <<>>
    /\ lastAdded = [t \in Times |-> nullopt]
    /\ outOfOrder = FALSE
    /\ \E a \in ComparedData, b \in ComparedData :
          op = [name |-> "none", a |-> a, b |-> b]

\* a == b and a != b
Compare ==
    /\ op.name = "none"
    /\ op' = [name |-> "compare", a |-> op.a, b |-> op.b,
              eq |-> operatorEq(op.a, op.b), ne |-> operatorNe(op.a, op.b)]
    /\ UNCHANGED <<mWeatherMap, lastAdded, outOfOrder>>

NextCompare == Compare

SpecCompare == InitCompare /\ [][NextCompare]_vars

\* The five members of a record.
DataMembers == {"time", "maxTemp", "minTemp", "meanTemp", "gas_ppt"}

\* C25: a == b exactly when each of the five members is unset in both
\* records or set in both to the same value, and a != b exactly when
\* a == b is false.
C25_EqualityOfRecords ==
    op.name = "compare" =>
        /\ op.eq <=>
              \A f \in DataMembers :
                  \/ op.a[f] = {} /\ op.b[f] = {}
                  \/ /\ op.a[f] # {}
                     /\ op.b[f] # {}
                     /\ \A x \in op.a[f], y \in op.b[f] : x = y
        /\ op.ne <=> ~op.eq

\* C25 witness: two records were compared that differ only in that one
\* has gas_ppt 0 and the other has none, and they were found unequal.
C25_Witness ==
    /\ op.name = "compare"
    /\ op.a.gas_ppt = {0}
    /\ op.b.gas_ppt = nullopt
    /\ \A f \in DataMembers \ {"gas_ppt"} : op.a[f] = op.b[f]
    /\ op.a.time = {1}
    /\ ~op.eq
    /\ op.ne

\* ------------------------------------------------------------------------
\* The --range option: its check (checkDateRange) and runRangeOption

\* ParseWeatherDriver::printWeatherData: the array written to std::cout.
printWeatherData(data) ==
    JsonArray([k \in 1..Len(data) |-> createWeatherJson(data[k])])

\* ParseWeatherDriver::runRangeOption on the archive m: what is printed.
runRangeOption(m, mOptionSingleString) ==
    LET startUnix  == dateToUnix(substr(mOptionSingleString, 0, 10))
        finishUnix == dateToUnix(substr(mOptionSingleString, 11, 10))
    IN  printWeatherData(retrieveRange(m, value(startUnix),
                                       value(finishUnix)))

\* Two of the days with a separator between them.
RangeWith(a, separator, b) ==
    unixToDate(MeanDay(a)) \o <<separator>> \o unixToDate(MeanDay(b))

\* The strings given to --range: two of the days in either order with '|'
\* or another character between them, a range that lacks its last
\* character or has one more, a range whose first month is 13, and a
\* string that is no range.
RangeOptionStrings ==
    { RangeWith(a, separator, b) :
        a \in Times, b \in Times, separator \in {"|", "X", " "} }
      \cup { SubSeq(RangeWith(0, "|", 1), 1, 20),
             RangeWith(0, "|", 1) \o <<"0">>,
             DateString(2021, 13, 1) \o <<"|">> \o unixToDate(MeanDay(0)),
             <<"n", "o", "n", "e">> }

InitRange ==
    /\ mWeatherMap \in MeanArchives
    /\ lastAdded = [t \in Times |-> nullopt]
    /\ outOfOrder = FALSE
    /\ op = [name |-> "none"]

\* The check of the --range option: checkDateRange on the string given.
CheckRangeOption(range_string) ==
    /\ op.name = "none"
    /\ op' = [name |-> "checkDateRange", range_string |-> range_string,
              ret |-> checkDateRange(range_string)]
    /\ UNCHANGED <<mWeatherMap, lastAdded, outOfOrder>>

\* runRangeOption with the string that passed the check.
RunRangeOption ==
    /\ op.name = "checkDateRange"
    /\ op.ret
    /\ op' = [name |-> "runRangeOption",
              mOptionSingleString |-> op.range_string,
              cout |-> runRangeOption(mWeatherMap, op.range_string)]
    /\ UNCHANGED <<mWeatherMap, lastAdded, outOfOrder>>

NextRange ==
    \/ \E range_string \in RangeOptionStrings : CheckRangeOption(range_string)
    \/ RunRangeOption

SpecRange == InitRange /\ [][NextRange]_vars

\* C26: the --range query prints every record stored under a date from
\* the start to the finish of the range, whether or not a record is stored
\* on the start date.
C26_RangePrintsAllPresent ==
    op.name = "runRangeOption" =>
        LET start  == value(dateToUnix(substr(op.mOptionSingleString, 0, 10)))
            finish == value(dateToUnix(substr(op.mOptionSingleString, 11, 10)))
        IN  \A i \in 1..Len(mWeatherMap) :
                (start <= mWeatherMap[i].key /\ mWeatherMap[i].key <= finish)
                => \E k \in 1..Len(op.cout.elems) :
                      op.cout.elems[k] = createWeatherJson(mWeatherMap[i].data)

\* C28: checkDateRange returns true only for a string of 21 characters
\* whose eleventh character is '|', whose first ten and last ten characters
\* are dates of the yyyy-mm-dd form, the first at or before the second.
C28_DateRangeFormat ==
    (op.name = "checkDateRange" /\ op.ret) =>
        /\ Len(op.range_string) = 21
        /\ op.range_string[11] = "|"
        /\ DateRegexAt(op.range_string, 1)
        /\ DateRegexAt(op.range_string, 12)
        /\ value(dateToUnix(SubSeq(op.range_string, 1, 10)))
              <= value(dateToUnix(SubSeq(op.range_string, 12, 21)))

\* ------------------------------------------------------------------------
\* ParseWeatherDriver::run

\* Faulty variant: the options are tested one after the other with if, not
\* else if, so that every option given has its handler run.
SelectOptionEach(options) ==
    (IF "date" \in options THEN <<"runDateOption">> ELSE <<>>)
    \o (IF "range" \in options THEN <<"runRangeOption">> ELSE <<>>)
    \o (IF "mean" \in options THEN <<"runMeanOption">> ELSE <<>>)
    \o (IF "sample" \in options THEN <<"runSampleHistoryOption">> ELSE <<>>)

\* The if / else if chain of run over the options that were passed
\* (count() > 0): the handlers it calls, in order.
SelectOption(options) ==
    IF "date" \in options THEN <<"runDateOption">>
    ELSE IF "range" \in options THEN <<"runRangeOption">>
    ELSE IF "mean" \in options THEN <<"runMeanOption">>
    ELSE IF "sample" \in options THEN <<"runSampleHistoryOption">>
    ELSE <<>>

\* The query options, and the files run is given: one that is not JSON, an
\* array of two weather objects, an array whose second element is a
\* number, a single weather object and a number.
QueryOptions == {"date", "range", "mean", "sample"}

RunFiles ==
    LET first == JsonObject((DATE_KEY :> JsonString(unixToDate(MeanDay(0))))
                               @@ (TMAX_KEY :> JsonNumber(1)))
        second == JsonObject((DATE_KEY :> JsonString(unixToDate(MeanDay(1))))
                               @@ (TMIN_KEY :> JsonNumber(2)))
    IN  { [parses |-> FALSE],
          [parses |-> TRUE, json |-> JsonArray(<<first, second>>)],
          [parses |-> TRUE, json |-> JsonArray(<<first, JsonNumber(7)>>)],
          [parses |-> TRUE, json |-> second],
          [parses |-> TRUE, json |-> JsonNumber(7)] }

YearRangeLength == 9

\* jsonparse::yearRegex on the whole of str: a year of four digits, the
\* first 1 or 2, as the year of dateRegex.
yearRegexMatch(str) ==
    /\ Len(str) = 4
    /\ str[1] \in {"1", "2"}
    /\ \A p \in 2..4 : IsDigit(str[p])

\* ParseWeatherDriver::checkYearRange
checkYearRange(year_range) ==
    IF Len(year_range) # YearRangeLength
    THEN FALSE
    ELSE IF \/ ~yearRegexMatch(substr(year_range, 0, 4))
            \/ ~yearRegexMatch(substrFrom(year_range, 5))
    THEN FALSE
    ELSE stoi(substr(year_range, 0, 4)) <= stoi(substrFrom(year_range, 5))

\* Whether runDateOption ends by an exception: it reports a date it cannot
\* convert, or has no data of, on std::cerr and returns.
runDateOptionThrows(mOptionSingleString) == FALSE

\* Whether runRangeOption ends by an exception: substr(11, 10) throws
\* std::out_of_range on a string shorter than 11 characters, and value()
\* throws std::bad_optional_access on a date dateToUnix did not convert.
runRangeOptionThrows(mOptionSingleString) ==
    \/ Len(mOptionSingleString) < 11
    \/ ~has_value(dateToUnix(substr(mOptionSingleString, 0, 10)))
    \/ ~has_value(dateToUnix(substr(mOptionSingleString, 11, 10)))

\* Whether runSampleHistoryOption ends by an exception: it throws
\* CLI::ValidationError unless it has two strings, a date range and a
\* year range in either order.
runSampleHistoryOptionThrows(mOptionMultiString) ==
    IF Len(mOptionMultiString) # 2
    THEN TRUE
    ELSE IF /\ checkDateRange(mOptionMultiString[1])
            /\ checkYearRange(mOptionMultiString[2])
    THEN FALSE
    ELSE IF /\ checkDateRange(mOptionMultiString[2])
            /\ checkYearRange(mOptionMultiString[1])
    THEN FALSE
    ELSE TRUE

\* Whether the handler called by run on the archive m ends by an
\* exception, which run lets through.
HandlerThrows(handler, m, mOptionSingleString, mOptionMultiString) ==
    CASE handler = "runDateOption" ->
            runDateOptionThrows(mOptionSingleString)
      [] handler = "runRangeOption" ->
            runRangeOptionThrows(mOptionSingleString)
      [] handler = "runMeanOption" ->
            runMeanOption(m, mOptionMultiString).thrown
      [] handler = "runSampleHistoryOption" ->
            runSampleHistoryOptionThrows(mOptionMultiString)

\* The string of the --date or --range option: none given, a date, a
\* date range, and a string that is neither.
RunSingleStrings ==
    { <<>>, unixToDate(MeanDay(0)), RangeString(0, 1),
      <<"n", "o", "n", "e">> }

\* The strings of the --mean or --sample-history option: none given, a
\* date range with a variable, a date range with a year range, and two
\* strings that are none of these.
RunMultiStrings ==
    { <<>>,
      <<RangeString(0, 1), Chars(TMAX_KEY)>>,
      <<PadNumber(2020, 4) \o <<"|">> \o PadNumber(2022, 4),
        RangeString(0, 1)>>,
      << <<"f", "o", "o">>, <<"b", "a", "r">> >> }

InitRun ==
    /\ mWeatherMap = <<>>
    /\ lastAdded = [t \in Times |-> nullopt]
    /\ outOfOrder = FALSE
    /\ op = [name |-> "none"]

\* run is entered: fileOption tells whether --file was passed, options
\* which of the query options were, and the two members hold the strings
\* the options were given.
Run(fileOption, file, options, mOptionSingleString, mOptionMultiString) ==
    /\ op.name = "none"
    /\ op' = [name |-> "run", pc |-> "file", fileOption |-> fileOption,
              file |-> file, options |-> options,
              mOptionSingleString |-> mOptionSingleString,
              mOptionMultiString |-> mOptionMultiString,
              calls |-> <<>>, read |-> nullopt, thrown |-> FALSE]
    /\ UNCHANGED <<mWeatherMap, lastAdded, outOfOrder>>

\* The first statement of run: readInputFile when --file was passed, run
\* returning if it fails; CLI::ValidationError otherwise.
RunReadInputFile ==
    /\ op.name = "run"
    /\ op.pc = "file"
    /\ IF op.fileOption
       THEN LET call == readInputFile(mWeatherMap, op.file)
            IN  /\ mWeatherMap' = call.mArchive
                /\ op' = [op EXCEPT
                            !.calls = Append(@, "readInputFile"),
                            !.read = {call.ret},
                            !.pc = IF call.ret THEN "options" ELSE "returned"]
       ELSE /\ mWeatherMap' = mWeatherMap
            /\ op' = [op EXCEPT !.thrown = TRUE, !.pc = "returned"]
    /\ UNCHANGED <<lastAdded, outOfOrder>>

\* The second statement of run: the handler of the first option passed, in
\* the order date, range, mean, sample; an exception of the handler ends
\* run.  The handlers are const members.
RunOption ==
    /\ op.name = "run"
    /\ op.pc = "options"
    /\ LET handlers == SelectOption(op.options)
       IN  op' = [op EXCEPT
                    !.calls = @ \o handlers,
                    !.thrown =
                        \E k \in 1..Len(handlers) :
                            HandlerThrows(handlers[k], mWeatherMap,
                                          op.mOptionSingleString,
                                          op.mOptionMultiString),
                    !.pc = "returned"]
    /\ UNCHANGED <<mWeatherMap, lastAdded, outOfOrder>>

NextRun ==
    \/ \E fileOption \in BOOLEAN, file \in RunFiles,
          options \in SUBSET QueryOptions,
          mOptionSingleString \in RunSingleStrings,
          mOptionMultiString \in RunMultiStrings :
          Run(fileOption, file, options, mOptionSingleString,
              mOptionMultiString)
    \/ RunReadInputFile
    \/ RunOption

SpecRun == InitRun /\ [][NextRun]_vars

\* The handlers of the query options in the order of their priority.
HandlerPriority ==
    << <<"date", "runDateOption">>, <<"range", "runRangeOption">>,
       <<"mean", "runMeanOption">>, <<"sample", "runSampleHistoryOption">> >>

\* The positions of the calls of run that are calls of a handler, and
\* those that are the load.
HandlerCalls ==
    { k \in 1..Len(op.calls) :
        \E i \in 1..Len(HandlerPriority) : op.calls[k] = HandlerPriority[i][2] }

LoadCalls == { k \in 1..Len(op.calls) : op.calls[k] = "readInputFile" }

\* C27: in run the file is read at most once, and exactly once when run
\* got past its first statement with --file passed; every handler call
\* comes after the load, which has succeeded, and no load comes after it;
\* after a failed load no handler is called; after a load that succeeded
\* at most one handler is called, that of the first option passed in the
\* order date, range, mean, sample.
C27_LoadOnceThenOneQuery ==
    op.name = "run" =>
        /\ Cardinality(LoadCalls) <= 1
        /\ (op.pc # "file" /\ op.fileOption) => Cardinality(LoadCalls) = 1
        /\ Cardinality(HandlerCalls) <= 1
        /\ \A k \in HandlerCalls :
              /\ op.read = {TRUE}
              /\ \A j \in LoadCalls : j < k
        /\ op.read # {TRUE} => HandlerCalls = {}
        /\ (op.pc = "returned" /\ op.read = {TRUE}) =>
              \A i \in 1..Len(HandlerPriority) :
                  (/\ HandlerPriority[i][1] \in op.options
                   /\ \A j \in 1..(i - 1) :
                         HandlerPriority[j][1] \notin op.options)
                  => /\ HandlerCalls # {}
                     /\ \A k \in HandlerCalls :
                           op.calls[k] = HandlerPriority[i][2]

\* C27 witness: run was given a file that loads and the range and sample
\* options; it read the file, filling the archive, then called
\* runRangeOption and nothing else.
C27_Witness ==
    /\ op.name = "run"
    /\ op.pc = "returned"
    /\ op.options = {"range", "sample"}
    /\ op.calls = <<"readInputFile", "runRangeOption">>
    /\ Len(mWeatherMap) = 2

\* ------------------------------------------------------------------------
\* The queries of the archive side by side: retrieve, retrieveRange,
\* calcVariableMean and sampleHistoricalData on the archives of the sample

\* The times the stored records of the sample archives are filed under.
SampleTimes == { value(SampleStored[k].time) : k \in 1..Len(SampleStored) }

NextQuery ==
    \/ NextSample
    \/ /\ op.name = "none"
       /\ \E time \in SampleTimes : Retrieve(time)
    \/ /\ op.name = "none"
       /\ \E begin_sec \in SampleTimes, end_sec \in SampleTimes :
             RetrieveRange(begin_sec, end_sec)
    \/ /\ op.name = "none"
       /\ \E startUnix \in SampleTimes, finishUnix \in SampleTimes,
             i \in 1..Len(VariableStrings) :
             CalcVariableMean(startUnix, finishUnix, VariableStrings[i])

SpecQuery == InitSample /\ [][NextQuery]_vars

\* C29: a step of retrieve, retrieveRange, calcVariableMean or
\* sampleHistoricalData leaves the archive as it was: the records returned
\* are copies, and the time written on a sampled record is not written on
\* the stored one.
C29_QueriesLeaveArchive ==
    [][op'.name \in {"retrieve", "retrieveRange", "calcVariableMean",
                     "sampleHistoricalData"}
          => mWeatherMap' = mWeatherMap]_vars

\* C29 witness: a sample has returned a record stamped with a day of the
\* date range, and the stored record with its measurements still has the
\* time it is filed under.
C29_Witness ==
    /\ SampleCall
    /\ op.returned
    /\ Len(op.retData) >= 1
    /\ \E i \in 1..Len(mWeatherMap) :
          /\ SameMeasurements(mWeatherMap[i].data, op.retData[1])
          /\ mWeatherMap[i].data.time = {mWeatherMap[i].key}
          /\ mWeatherMap[i].data.time # op.retData[1].time

\* ------------------------------------------------------------------------
\* All the operations on one archive: addData, retrieve, retrieveRange and
\* calcVariableMean (of the maximum temperature) as in Spec, and
\* sampleHistoricalData on the archive they made.  The keys of that archive are the seconds of Times, of which
\* 0 is the first second of 1970-01-01, the day a sample of the first of
\* January looks up for the year 1970.

\* The date ranges and the year ranges of those samples.
OpsDateRanges ==
    { DateString(1971, 1, 1) \o <<"|">> \o DateString(1971, 1, 1),
      DateString(1971, 1, 1) \o <<"|">> \o DateString(1971, 1, 2) }

OpsYearRanges ==
    { PadNumber(1970, 4) \o <<"|">> \o PadNumber(1970, 4),
      PadNumber(1969, 4) \o <<"|">> \o PadNumber(1970, 4) }

NextOps ==
    \/ /\ ~SampleRunning
       /\ \E data \in InputData : AddData(data)
    \/ /\ ~SampleRunning
       /\ \E time \in Times : Retrieve(time)
    \/ /\ ~SampleRunning
       /\ \E begin_sec \in Times, end_sec \in Times :
             RetrieveRange(begin_sec, end_sec)
    \/ /\ ~SampleRunning
       /\ \E startUnix \in Times, finishUnix \in Times :
             CalcVariableMean(startUnix, finishUnix, TMAX_KEY)
    \/ \E date_range \in OpsDateRanges, year_range \in OpsYearRanges :
          SampleHistoricalData(date_range, year_range)
    \/ /\ op.name = "sampleHistoricalData"
       /\ \E shuffled \in Shuffles(op.sampleYears) : SampleDay(shuffled)
    \/ SampleReturn

SpecOps == Init /\ [][NextOps]_vars

\* ------------------------------------------------------------------------
\* The frame of addData

\* The entries of the archive, and its keys, as sets.
EntrySet(m) == {m[i] : i \in 1..Len(m)}

KeySet(m) == {m[i].key : i \in 1..Len(m)}

\* C30: addData of a record with timestamp t changes only the entry under
\* t: what is stored under every other key stays, and the archive grows by
\* one entry when t was no key and by none when it was; no step of any
\* operation takes a key away, so a timestamp that retrieve finds once it
\* finds ever after.
C30_AddDataFrame ==
    [][/\ KeySet(mWeatherMap) \subseteq KeySet(mWeatherMap')
       /\ (op'.name = "addData" /\ has_value(op'.data.time)) =>
             LET t == value(op'.data.time)
             IN  /\ {en \in EntrySet(mWeatherMap') : en.key # t}
                       = {en \in EntrySet(mWeatherMap) : en.key # t}
                 /\ Len(mWeatherMap') =
                       Len(mWeatherMap)
                          + (IF t \in KeySet(mWeatherMap) THEN 0 ELSE 1)
                 /\ has_value(retrieve(mWeatherMap', t))]_vars

\* C30 witness: a record was added under a new key between two keys of the
\* archive, which now has three entries.
C30_Witness ==
    /\ op.name = "addData"
    /\ has_value(op.data.time)
    /\ op.old = nullopt
    /\ Len(mWeatherMap) = 3
    /\ mWeatherMap[2].key = value(op.data.time)
    /\ mWeatherMap[2].data = op.data

====
